---- MODULE Spec2Model ----
(***************************************************************************)
(* A model of package merge: DeepMerge (Same-Kind) and DeepMap             *)
(* (Cross-Kind), the two reflective traversals that copy src into dst.     *)
(*                                                                         *)
(* Go values live in a heap of objects; a reflect.Value is a handle that   *)
(* is either a location in the heap (addressable) or an immediate copy.    *)
(* One top-level call is one action; deepValueMerge and deepValueMap are   *)
(* recursive operators threading the heap, the visited set and the error.  *)
(***************************************************************************)
EXTENDS Integers, Sequences, FiniteSets, TLC

(***************************************************************************)
(* Bounds of the model.                                                    *)
(***************************************************************************)
\* largest scalar payload drawn for generated inputs
MaxVal == 2
\* longest generated slice
MaxLen == 2
\* top-level calls made in a row on the same arguments
MaxCalls == 2
\* references followed when two values are compared
MaxDepth == 4

(***************************************************************************)
(* The type universe.  A type descriptor mirrors what reflect.Type tells   *)
(* the code: Kind, Elem, Len, the struct fields with IsExported/Anonymous. *)
(***************************************************************************)
Fld(name, typ, exported, anon) ==
    [name |-> name, typ |-> typ, exported |-> exported, anon |-> anon]

\* A type is its descriptor.  A defined type carries its name; a pointer,
\* slice, array or map type written as a type literal has the name "" and
\* is identical to every other such type of the same structure.  bits is
\* the width of a numeric type.
TDesc(name, kind, elem, len, fields) ==
    [name |-> name, kind |-> kind, elem |-> elem, len |-> len,
     fields |-> fields, bits |-> 0]

\* the element type of a type that has none, and of a type that is defined
\* in terms of itself
NoElem == [kind |-> "none"]
Self   == [kind |-> "self"]

\* the type of the invalid Value
NoType == TDesc("", "invalid", NoElem, 0, <<>>)

Scalar(name, kind) == TDesc(name, kind, NoElem, 0, <<>>)

\* The model scales the machine down: the widest integers (int, uint,
\* int64, uint64) have Bits64 bits and int32 has Bits32; a float's width is
\* the length of its mantissa, Mant64 bits for float64 and Mant32 for
\* float32 (and for the two parts of a complex).
Bits64 == 16
Bits32 == 12
Bits8  == 8
Mant64 == 11
Mant32 == 8

Numeric(name, kind, bits) == [Scalar(name, kind) EXCEPT !.bits = bits]

\* reflect.PointerTo(t), reflect.SliceOf(t)
PtrTo(t)   == TDesc("", "ptr", t, 0, <<>>)
SliceOf(t) == TDesc("", "slice", t, 0, <<>>)

\* the types of the model, by the name the Go source gives them
RECURSIVE Named(_)
Named(n) ==
    CASE n = "int"        -> Numeric(n, "int", Bits64)
      [] n = "int8"       -> Numeric(n, "int", Bits8)
      [] n = "int32"      -> Numeric(n, "int", Bits32)
      [] n = "uint"       -> Numeric(n, "uint", Bits64)
      [] n = "uint8"      -> Numeric(n, "uint", Bits8)
      [] n = "float64"    -> Numeric(n, "float", Mant64)
      [] n = "float32"    -> Numeric(n, "float", Mant32)
      [] n = "complex128" -> Numeric(n, "complex", Mant64)
      [] n = "complex64"  -> Numeric(n, "complex", Mant32)
      [] n = "string"     -> Scalar(n, "string")
      [] n = "MyString"   -> Scalar(n, "string")
      [] n = "bool"       -> Scalar(n, "bool")
      [] n = "chan"       -> Scalar(n, "chan")
      [] n = "func"       -> Scalar(n, "func")
      [] n = "any"        -> Scalar(n, "iface")
      [] n = "[]uint8"    -> SliceOf(Named("uint8"))
      [] n = "[]int32"    -> SliceOf(Named("int32"))
      [] n = "[]float64"  -> SliceOf(Named("float64"))
      [] n = "[]int"      -> SliceOf(Named("int"))
      [] n = "[]*int"     -> SliceOf(PtrTo(Named("int")))
      [] n = "[2]int"     -> TDesc("", "array", Named("int"), 2, <<>>)
      [] n = "map[string]any"   -> TDesc("", "map", Named("any"), 0, <<>>)
      [] n = "map[string]int"   -> TDesc("", "map", Named("int"), 0, <<>>)
      [] n = "map[string][]int" -> TDesc("", "map", Named("[]int"), 0, <<>>)
      [] n = "map[string]*int"  ->
            TDesc("", "map", PtrTo(Named("int")), 0, <<>>)
      [] n = "map[string]TU"    -> TDesc("", "map", Named("TU"), 0, <<>>)
      \* type CycleSlice []CycleSlice
      [] n = "CycleSlice" -> TDesc(n, "slice", Self, 0, <<>>)
      \* type CyclePtr *CyclePtr
      [] n = "CyclePtr"   -> TDesc(n, "ptr", Self, 0, <<>>)
      \* type CycleMap map[string]CycleMap
      [] n = "CycleMap"   -> TDesc(n, "map", Self, 0, <<>>)
      \* struct{ A int }
      [] n = "T"   -> TDesc(n, "struct", NoElem, 0,
                        << Fld("A", Named("int"), TRUE, FALSE) >>)
      \* struct{ A int; T *T; c int }
      [] n = "T2"  -> TDesc(n, "struct", NoElem, 0,
                        << Fld("A", Named("int"), TRUE, FALSE),
                           Fld("T", PtrTo(Named("T")), TRUE, FALSE),
                           Fld("c", Named("int"), FALSE, FALSE) >>)
      \* struct{ A int; P *int }
      [] n = "TP"  -> TDesc(n, "struct", NoElem, 0,
                        << Fld("A", Named("int"), TRUE, FALSE),
                           Fld("P", PtrTo(Named("int")), TRUE, FALSE) >>)
      \* struct{ A int; b int }: one exported and one unexported field
      [] n = "TU"  -> TDesc(n, "struct", NoElem, 0,
                        << Fld("A", Named("int"), TRUE, FALSE),
                           Fld("b", Named("int"), FALSE, FALSE) >>)
      \* struct{ a int }: no traversable field
      [] n = "TN"  -> TDesc(n, "struct", NoElem, 0,
                        << Fld("a", Named("int"), FALSE, FALSE) >>)
      \* struct{ n TN; B int }: an unexported struct-kind field
      [] n = "TE"  -> TDesc(n, "struct", NoElem, 0,
                        << Fld("n", Named("TN"), FALSE, FALSE),
                           Fld("B", Named("int"), TRUE, FALSE) >>)
      \* struct{ A int; I any; B int }
      [] n = "TI"  -> TDesc(n, "struct", NoElem, 0,
                        << Fld("A", Named("int"), TRUE, FALSE),
                           Fld("I", Named("any"), TRUE, FALSE),
                           Fld("B", Named("int"), TRUE, FALSE) >>)
      [] n = "map[string]TI"    -> TDesc("", "map", Named("TI"), 0, <<>>)
      \* struct{ S []int; M map[string]int; I any }
      [] n = "TC"  -> TDesc(n, "struct", NoElem, 0,
                        << Fld("S", Named("[]int"), TRUE, FALSE),
                           Fld("M", Named("map[string]int"), TRUE, FALSE),
                           Fld("I", Named("any"), TRUE, FALSE) >>)

Ty(n) == Named(n)

\* reflect.Type: Kind and Elem
Kind(t)   == t.kind
ElemOf(t) == IF t.elem.kind = "self" THEN t ELSE t.elem

\* the keys generated maps draw from
Keys == {"a", "b"}

(***************************************************************************)
(* Values.  Scalars carry an integer payload (a bool is 0/1, a chan or a   *)
(* func its identity, 0 being nil); a string is its sequence of bytes; a   *)
(* pointer, slice or map holds the address of a heap object (0 = nil); a   *)
(* struct or array holds its fields or elements; an interface holds the    *)
(* dynamic type and value (NoType and NoVal when nil).                         *)
(***************************************************************************)
Num(n)        == [k |-> "s", n |-> n]
Str(s)        == [k |-> "str", s |-> s]
Ptr(a)        == [k |-> "ptr", a |-> a]
Slice(a, len) == [k |-> "slice", a |-> a, len |-> len]
MapV(a)       == [k |-> "map", a |-> a]
Agg(e)        == [k |-> "agg", e |-> e]
NoVal         == Num(0)
Iface(t, v)   == [k |-> "iface", t |-> t, v |-> v]

\* reflect.Zero(t)
RECURSIVE ZeroOf(_)
ZeroOf(t) ==
    CASE t.kind \in {"int", "uint", "float", "bool", "chan", "func"} -> Num(0)
      [] t.kind = "complex" -> [k |-> "c", re |-> 0, im |-> 0]
      [] t.kind = "string"  -> Str(<<>>)
      [] t.kind = "ptr"     -> Ptr(0)
      [] t.kind = "slice"   -> Slice(0, 0)
      [] t.kind = "map"     -> MapV(0)
      [] t.kind = "iface"   -> Iface(NoType, NoVal)
      [] t.kind = "array"   -> Agg([i \in 1..t.len |-> ZeroOf(t.elem)])
      [] t.kind = "struct"  ->
            Agg([i \in 1..Len(t.fields) |-> ZeroOf(t.fields[i].typ)])

\* Value.IsNil for pointer, slice, map, chan, func and interface values
IsNilV(v) ==
    CASE v.k \in {"ptr", "slice", "map"} -> v.a = 0
      [] v.k = "iface" -> v.t.kind = "invalid"
      [] OTHER -> v.n = 0

\* Value.IsZero: nil for the reference kinds, all elements or fields zero
\* for arrays and structs, the zero payload for scalars
RECURSIVE IsZeroV(_)
IsZeroV(v) ==
    CASE v.k = "s"   -> v.n = 0
      [] v.k = "c"   -> v.re = 0 /\ v.im = 0
      [] v.k = "str" -> v.s = <<>>
      [] v.k = "agg" -> \A i \in 1..Len(v.e) : IsZeroV(v.e[i])
      [] OTHER       -> IsNilV(v)

(***************************************************************************)
(* The heap.  An object is a run of elements (the backing array of a       *)
(* slice, or the one-element target of a pointer) or a map.  Address 1 is  *)
(* the runtime's zerobase: the data pointer of every zero-capacity slice.  *)
(***************************************************************************)
ArrObj(e) == [o |-> "arr", e |-> e]
MapObj(m) == [o |-> "map", m |-> m]
EmptyMap  == [x \in {} |-> NoVal]
ZeroBase  == Len(<<ArrObj(<<>>)>>)
Heap0     == <<ArrObj(<<>>)>>

\* a new object at the next free address
Alloc(h, obj) == [h |-> Append(h, obj), a |-> Len(h) + 1]

\* the value at path p below value v (field and element selectors)
RECURSIVE Walk(_, _)
Walk(v, p) == IF p = <<>> THEN v ELSE Walk(v.e[Head(p)], Tail(p))

\* value v with the value at path p replaced by w
RECURSIVE Put(_, _, _)
Put(v, p, w) ==
    IF p = <<>> THEN w
    ELSE [v EXCEPT !.e = [@ EXCEPT ![Head(p)] = Put(@, Tail(p), w)]]

(***************************************************************************)
(* reflect.Value: a handle.  a # 0: the location at path p of object a     *)
(* (CanAddr); a = 0: an immediate copy v.  t is the static type, ro the    *)
(* flag of a value obtained through an unexported field, emb whether that  *)
(* field was an embedded one and the flag therefore does not stick to the  *)
(* fields below it (flagEmbedRO against flagStickyRO).                     *)
(***************************************************************************)
Loc(a, p, t, ro) ==
    [a |-> a, p |-> p, v |-> NoVal, t |-> t, ro |-> ro, emb |-> FALSE]
Imm(v, t, ro)    ==
    [a |-> 0, p |-> <<>>, v |-> v, t |-> t, ro |-> ro, emb |-> FALSE]
Invalid          ==
    [a |-> 0, p |-> <<>>, v |-> NoVal, t |-> NoType, ro |-> FALSE,
     emb |-> FALSE]

IsValid(x) == x.t.kind # "invalid"
CanAddr(x) == x.a # 0
CanSet(x)  == x.a # 0 /\ ~x.ro

Load(h, x) ==
    IF x.a = 0 THEN x.v ELSE Walk(h[x.a].e[Head(x.p)], Tail(x.p))

\* the heap after Value.Set on a settable handle
Store(h, x, w) ==
    [h EXCEPT ![x.a] =
        [@ EXCEPT !.e = [@ EXCEPT ![Head(x.p)] = Put(@, Tail(x.p), w)]]]

\* Value.Field(i) and Value.Index(i) on a struct or array
ElemType(t, i) ==
    IF Kind(t) = "struct" THEN t.fields[i].typ ELSE ElemOf(t)

FieldRO(t, i) == Kind(t) = "struct" /\ ~t.fields[i].exported

\* the read-only flag a field or element inherits: all of it for an array
\* element, the sticky part for a struct field
InheritRO(x) == x.ro /\ ~(x.emb /\ Kind(x.t) = "struct")

FieldH(h, x, i) ==
    LET ro  == InheritRO(x) \/ FieldRO(x.t, i)
        emb == ~InheritRO(x) /\ FieldRO(x.t, i) /\ x.t.fields[i].anon
        y   == IF x.a # 0 THEN Loc(x.a, Append(x.p, i), ElemType(x.t, i), ro)
               ELSE Imm(x.v.e[i], ElemType(x.t, i), ro)
    IN  [y EXCEPT !.emb = emb]

\* Value.Index(i) on a slice (0-based i): always addressable
SliceIndexH(h, x, i) ==
    Loc(Load(h, x).a, <<i + 1>>, ElemOf(x.t), x.ro)

\* Value.Elem on a non-nil pointer
PtrElemH(h, x) == Loc(Load(h, x).a, <<1>>, ElemOf(x.t), x.ro)

\* Value.Elem on a non-nil interface: the held value, not addressable
IfaceElemH(h, x) ==
    LET v == Load(h, x) IN Imm(v.v, v.t, x.ro)

\* Value.Len and Value.Cap of a slice, Value.Len of a map
SliceCap(h, v)  == IF v.a = 0 THEN 0 ELSE Len(h[v.a].e)
MapLen(h, v)    == IF v.a = 0 THEN 0 ELSE Cardinality(DOMAIN h[v.a].m)
MapKeys(h, v)   == IF v.a = 0 THEN {} ELSE DOMAIN h[v.a].m

\* Value.MapIndex(k): a copy of the entry, or the invalid Value
MapIndexH(h, x, key) ==
    LET v == Load(h, x) IN
    IF key \in MapKeys(h, v)
    THEN Imm(h[v.a].m[key], ElemOf(x.t), x.ro)
    ELSE Invalid

(***************************************************************************)
(* Config (the six policy flags and the transformer table) and the state   *)
(* one top-level call threads through its recursion: the heap, the visited *)
(* map, the error ("" when none; a run-time panic is an error starting     *)
(* with "panic"), the order in which maps are ranged over, and a record of *)
(* the visit keys registered, of the shallow copies made and of the        *)
(* transformer calls made.                                                 *)
(***************************************************************************)
Config(ow, owev, tc, nd, app, oes, tr) ==
    [overwrite |-> ow, overwriteWithEmptyValue |-> owev, typeCheck |-> tc,
     shouldNotDereference |-> nd, appendSlice |-> app,
     overwriteEmptySlice |-> oes, transformers |-> tr]

CallState(h, order) ==
    [h |-> h, visited |-> {}, err |-> "", order |-> order,
     registered |-> <<>>, cycles |-> 0, invoked |-> <<>>, arch |-> "amd64"]

Fail(s, e) == [s EXCEPT !.err = e]

\* what Value.Set stores: a concrete value assigned to an interface
\* location is wrapped with its type
Assigned(dt, xt, v) ==
    IF Kind(dt) = "iface" /\ Kind(xt) # "iface" THEN Iface(xt, v) ELSE v

\* dst.Set(x) for a value v of type xt: panics unless dst is settable and
\* x was not obtained through an unexported field
SetValue(s, dst, v, xt, xro) ==
    IF ~CanSet(dst) \/ xro
    THEN Fail(s, "panic: reflect.Value.Set")
    ELSE [s EXCEPT !.h = Store(s.h, dst, Assigned(dst.t, xt, v))]

\* the assignment goes the other way
SetSwapped(s, dst, src) == SetValue(s, src, Load(s.h, dst), dst.t, dst.ro)

\* dst.Set(src)
Set(s, dst, src) == SetValue(s, dst, Load(s.h, src), src.t, src.ro)

\* reflect.New(t).Elem(): a fresh settable zero value
New(s, t) ==
    LET r == Alloc(s.h, ArrObj(<<ZeroOf(t)>>)) IN
    [s |-> [s EXCEPT !.h = r.h], x |-> Loc(r.a, <<1>>, t, FALSE)]

\* hard(src): the kinds that can take part in a reference cycle
hard(h, src) ==
    CASE Kind(src.t) \in {"ptr", "map", "slice"} -> ~IsNilV(Load(h, src))
      [] Kind(src.t) = "iface" -> ~IsNilV(Load(h, src)) /\ CanAddr(src)
      [] OTHER -> FALSE

\* ptrval(src): the data pointer of a pointer, map or slice, the address
\* of an interface location
ptrval(h, src) ==
    IF Kind(src.t) \in {"ptr", "map", "slice"}
    THEN <<Load(h, src).a, <<1>>>>
    ELSE <<src.a, src.p>>

\* the key of the visited map
visit(h, src) == <<ptrval(h, src), src.t>>

\* the capacity runtime.growslice gives a slice of capacity oldCap that
\* must hold newLen elements (small slices of word-sized elements)
growslice(oldCap, newLen) ==
    IF newLen > oldCap + oldCap THEN newLen ELSE oldCap + oldCap

\* an append that drops what it is given
AppendElemsDropped(h, d, add, et) == [h |-> h, v |-> d]

\* append(d, add...): in place when the capacity suffices, else into a
\* new backing array
AppendElems(h, d, add, et) ==
    LET newLen == d.len + Len(add) IN
    IF add = <<>> THEN [h |-> h, v |-> d]
    ELSE IF newLen <= SliceCap(h, d)
    THEN [h |-> [h EXCEPT ![d.a] = [@ EXCEPT !.e =
                    [i \in 1..Len(@) |->
                        IF i > d.len /\ i <= newLen
                        THEN add[i - d.len] ELSE @[i]]]],
          v |-> Slice(d.a, newLen)]
    ELSE LET cap == growslice(SliceCap(h, d), newLen)
             old == IF d.len = 0 THEN <<>> ELSE SubSeq(h[d.a].e, 1, d.len)
             r   == Alloc(h, ArrObj(old \o add \o
                        [i \in 1..(cap - newLen) |-> ZeroOf(et)]))
         IN  [h |-> r.h, v |-> Slice(r.a, newLen)]

\* the elements of slice value sv
SliceElems(h, sv) == IF sv.len = 0 THEN <<>> ELSE SubSeq(h[sv.a].e, 1, sv.len)

\* reflect.AppendSlice(d, sv)
AppendSlice(h, d, sv, et) == AppendElems(h, d, SliceElems(h, sv), et)

\* reflect.MakeSlice(t, n, n) followed by reflect.Copy(s, d)
MakeSliceCopy(h, d, n, et) ==
    LET r == Alloc(h, ArrObj([i \in 1..n |->
                 IF i <= d.len THEN h[d.a].e[i] ELSE ZeroOf(et)]))
    IN  [h |-> r.h, v |-> Slice(r.a, n)]

\* the fields deepValueMerge visits: all but the unexported ones that are
\* neither struct-kind nor embedded
MergeVisits(t, i) ==
    LET f == t.fields[i] IN
    ~(~f.exported /\ Kind(f.typ) # "struct" /\ ~f.anon)

\* the cycle break: a visit key seen before is not recursed into, dst.Set(src)
shallowCopy(dst, src, s) == Set([s EXCEPT !.cycles = @ + 1], dst, src)

\* a transformer call fn(dst.Addr(), src): "noop" returns nil, "copy" does
\* *dst = src, "fail" returns an error; Value.Call panics on an argument
\* obtained through an unexported field or not assignable to its parameter
CallTransformer(s, dst, src, fn) ==
    IF ~CanAddr(dst) THEN Fail(s, "panic: reflect.Value.Addr")
    ELSE IF dst.ro \/ src.ro \/ ~(src.t = dst.t \/ Kind(dst.t) = "iface")
    THEN Fail(s, "panic: reflect.Value.Call")
    ELSE LET s1 == [s EXCEPT !.invoked =
                        Append(@, [a |-> dst.a, p |-> dst.p, t |-> dst.t,
                                   src |-> Load(s.h, src)])]
         IN  CASE fn = "noop" -> s1
               [] fn = "copy" ->
                    [s1 EXCEPT !.h = Store(s.h, dst, Load(s.h, src))]
               [] fn = "fail" -> Fail(s1, "transformer error")

(***************************************************************************)
(* deepValueMerge: the Same-Kind traversal.                                *)
(***************************************************************************)
RECURSIVE deepValueMerge(_, _, _, _)
RECURSIVE mergeElems(_, _, _, _, _)
RECURSIVE mergeSliceElems(_, _, _, _, _)
RECURSIVE mergeFields(_, _, _, _, _)
RECURSIVE mergeEntries(_, _, _, _, _)

\* the final rule: "Normal merge suffices"
normalMerge(dst, src, s, c) ==
    IF (IsZeroV(Load(s.h, dst)) \/ c.overwrite)
       /\ (~IsZeroV(Load(s.h, src)) \/ c.overwriteWithEmptyValue)
    THEN Set(s, dst, src)
    ELSE s

\* case reflect.Array
mergeArray(dst, src, s, c) == mergeElems(dst, src, s, c, 1)

mergeElems(dst, src, s, c, i) ==
    IF i > dst.t.len THEN s
    ELSE LET s1 == deepValueMerge(FieldH(s.h, dst, i), FieldH(s.h, src, i), s, c)
         IN  IF s1.err # "" THEN s1 ELSE mergeElems(dst, src, s1, c, i + 1)

\* the element loop of case reflect.Slice (i is 0-based)
mergeSliceElems(dst, src, s, c, i) ==
    IF ~(i < Load(s.h, dst).len /\ i < Load(s.h, src).len) THEN s
    ELSE LET s1 == deepValueMerge(SliceIndexH(s.h, dst, i),
                                  SliceIndexH(s.h, src, i), s, c)
         IN  IF s1.err # "" THEN s1 ELSE mergeSliceElems(dst, src, s1, c, i + 1)

\* the tail is left as it was
zeroTailSkipped(dst, src, s) == s

\* dst.Index(i).SetZero() for every i in src.Len() .. dst.Len()-1
zeroTail(dst, src, s) ==
    LET d  == Load(s.h, dst)
        sv == Load(s.h, src)
    IN  IF sv.len >= d.len THEN s
        ELSE IF dst.ro THEN Fail(s, "panic: reflect.Value.SetZero")
        ELSE [s EXCEPT !.h = [@ EXCEPT ![d.a] = [@ EXCEPT !.e =
                [i \in 1..Len(@) |->
                    IF i > sv.len /\ i <= d.len
                    THEN ZeroOf(ElemOf(dst.t)) ELSE @[i]]]]]

\* a growth that is forgotten: dst keeps its length
growSliceSkipped(dst, src, s) == s

\* the growth of dst to src's length
growSlice(dst, src, s) ==
    LET d  == Load(s.h, dst)
        sv == Load(s.h, src)
    IN  IF ~(d.len < sv.len) THEN s
        ELSE IF sv.len <= SliceCap(s.h, d)
        THEN SetValue(s, dst, Slice(d.a, sv.len), dst.t, dst.ro)
        ELSE LET r == MakeSliceCopy(s.h, d, sv.len, ElemOf(dst.t))
             IN  SetValue([s EXCEPT !.h = r.h], dst, r.v, dst.t, FALSE)

\* a slice rule that appends whatever the policy says
mergeSliceAppending(dst, src, s, c) ==
    LET r == AppendSlice(s.h, Load(s.h, dst), Load(s.h, src), ElemOf(dst.t))
    IN  SetValue([s EXCEPT !.h = r.h], dst, r.v, dst.t, FALSE)

\* case reflect.Slice
mergeSlice(dst, src, s, c) ==
    LET d  == Load(s.h, dst)
        sv == Load(s.h, src)
    IN  IF d.len = 0 /\ (sv.len = 0 /\ c.overwriteEmptySlice)
        THEN Set(s, dst, src)
        ELSE IF c.appendSlice
        THEN LET r == AppendSlice(s.h, d, sv, ElemOf(dst.t))
             IN  SetValue([s EXCEPT !.h = r.h], dst, r.v, dst.t, FALSE)
        ELSE LET s1 == growSlice(dst, src, s) IN
             IF s1.err # "" THEN s1
             ELSE IF Load(s1.h, dst).a = Load(s1.h, src).a THEN s1
             ELSE LET s2 == mergeSliceElems(dst, src, s1, c, 0) IN
                  IF s2.err # "" THEN s2
                  ELSE IF c.overwriteWithEmptyValue
                  THEN zeroTail(dst, src, s2)
                  ELSE s2

\* the held value is left as it was
mergeHeldKept(dst, src, s, c) == s

\* the tail of case reflect.Interface: both hold a value
mergeHeld(dst, src, s, c) ==
    LET d  == Load(s.h, dst)
        sv == Load(s.h, src)
    IN  IF d.t # sv.t /\ c.overwrite /\ ~c.appendSlice
        THEN IF c.typeCheck
             THEN Fail(s, "overwrite interface value with difference concrete type")
             ELSE SetValue(s, dst, sv.v, sv.t, src.ro)
        ELSE LET n  == New(s, d.t)
                 s1 == SetValue(n.s, n.x, d.v, d.t, dst.ro)
             IN  IF s1.err # "" THEN s1
                 ELSE LET s2 == deepValueMerge(n.x, IfaceElemH(s1.h, src), s1, c)
                      IN  IF s2.err # "" THEN s2
                          ELSE Set(s2, dst, n.x)

\* case reflect.Interface
mergeInterface(dst, src, s, c) ==
    LET d  == Load(s.h, dst)
        sv == Load(s.h, src)
    IN  IF c.shouldNotDereference
        THEN IF (IsNilV(d) \/ c.overwrite)
                /\ (~IsNilV(sv) \/ c.overwriteWithEmptyValue)
             THEN Set(s, dst, src)
             ELSE s
        ELSE IF IsNilV(d) /\ IsNilV(sv) THEN s
        ELSE IF IsNilV(sv)
        THEN IF ~IsZeroV(d.v) /\ c.overwriteWithEmptyValue
             THEN SetValue(s, dst, ZeroOf(d.t), d.t, FALSE)
             ELSE s
        ELSE IF IsNilV(d)
        THEN LET s1 == SetValue(s, dst, ZeroOf(sv.t), sv.t, FALSE)
             IN  IF s1.err # "" THEN s1 ELSE mergeHeld(dst, src, s1, c)
        ELSE mergeHeld(dst, src, s, c)

\* a pointer case that assigns the pointer
mergePointerAssigned(dst, src, s, c) == Set(s, dst, src)

\* case reflect.Pointer
mergePointer(dst, src, s, c) ==
    LET d  == Load(s.h, dst)
        sv == Load(s.h, src)
    IN  IF c.shouldNotDereference
        THEN IF (IsNilV(d) \/ c.overwrite)
                /\ (~IsNilV(sv) \/ c.overwriteWithEmptyValue)
             THEN Set(s, dst, src)
             ELSE s
        ELSE IF d.a = sv.a THEN s
        ELSE IF IsNilV(sv)
        THEN IF ~IsZeroV(Load(s.h, PtrElemH(s.h, dst)))
                /\ c.overwriteWithEmptyValue
             THEN IF dst.ro THEN Fail(s, "panic: reflect.Value.SetZero")
                  ELSE [s EXCEPT !.h = Store(s.h, PtrElemH(s.h, dst),
                                             ZeroOf(ElemOf(dst.t)))]
             ELSE s
        ELSE LET s1 == IF IsNilV(d)
                       THEN LET n == New(s, ElemOf(dst.t))
                            IN  SetValue(n.s, dst, Ptr(n.x.a), dst.t, FALSE)
                       ELSE s
             IN  IF s1.err # "" THEN s1
                 ELSE deepValueMerge(PtrElemH(s1.h, dst), PtrElemH(s1.h, src),
                                     s1, c)

\* the fields after a failing one are visited too
RECURSIVE mergeFieldsThrough(_, _, _, _, _)
mergeFieldsThrough(dst, src, s, c, i) ==
    IF i > Len(dst.t.fields) THEN s
    ELSE LET s1 == deepValueMerge(FieldH(s.h, dst, i), FieldH(s.h, src, i),
                                  [s EXCEPT !.err = ""], c)
         IN  mergeFieldsThrough(dst, src,
                [s1 EXCEPT !.err = IF s.err # "" THEN s.err ELSE @], c, i + 1)

\* case reflect.Struct
mergeFields(dst, src, s, c, i) ==
    IF i > Len(dst.t.fields) THEN s
    ELSE IF ~MergeVisits(dst.t, i) THEN mergeFields(dst, src, s, c, i + 1)
    ELSE LET s1 == deepValueMerge(FieldH(s.h, dst, i), FieldH(s.h, src, i), s, c)
         IN  IF s1.err # "" THEN s1 ELSE mergeFields(dst, src, s1, c, i + 1)

mergeStruct(dst, src, s, c) ==
    IF \E i \in 1..Len(dst.t.fields) : MergeVisits(dst.t, i)
    THEN mergeFields(dst, src, s, c, 1)
    ELSE normalMerge(dst, src, s, c)

\* the entry is not stored
SetMapIndexSkipped(s, dst, key, v, vro) == s

\* dst.SetMapIndex(k, v): panics on a nil map or when the map, the key or
\* the value was obtained through an unexported field
SetMapIndex(s, dst, key, v, vro) ==
    LET d == Load(s.h, dst) IN
    IF dst.ro \/ vro THEN Fail(s, "panic: reflect.Value.SetMapIndex")
    ELSE IF d.a = 0 THEN Fail(s, "panic: assignment to entry in nil map")
    ELSE [s EXCEPT !.h = [@ EXCEPT ![d.a] = [@ EXCEPT !.m =
            [x \in DOMAIN @ \cup {key} |-> IF x = key THEN v ELSE @[x]]]]]

\* no key is deleted
deleteMissingSkipped(dst, src, s) == s

\* dst.SetMapIndex(k, reflect.Value{}) for every key of dst absent from src
deleteMissing(dst, src, s) ==
    LET d    == Load(s.h, dst)
        keep == MapKeys(s.h, d) \cap MapKeys(s.h, Load(s.h, src))
    IN  IF MapKeys(s.h, d) = keep THEN s
        ELSE IF dst.ro THEN Fail(s, "panic: reflect.Value.SetMapIndex")
        ELSE [s EXCEPT !.h = [@ EXCEPT ![d.a] = [@ EXCEPT !.m =
                [x \in keep |-> @[x]]]]]

\* one iteration of the range over src, for the keys still to come
mergeEntries(dst, src, s, c, keys) ==
    IF keys = <<>> THEN s
    ELSE LET key  == Head(keys)
             val1 == MapIndexH(s.h, src, key)
             old  == MapIndexH(s.h, dst, key)
         IN  IF ~IsValid(val1) THEN mergeEntries(dst, src, s, c, Tail(keys))
             ELSE LET n  == New(s, val1.t)
                      s1 == IF IsValid(old)
                            THEN SetValue(n.s, n.x, old.v, old.t, old.ro)
                            ELSE n.s
                      s2 == IF s1.err # "" THEN s1
                            ELSE deepValueMerge(n.x, val1, s1, c)
                      s3 == IF s2.err # "" THEN s2
                            ELSE SetMapIndex(s2, dst, key, Load(s2.h, n.x), src.ro)
                  IN  IF s3.err # "" THEN s3
                      ELSE mergeEntries(dst, src, s3, c, Tail(keys))

\* the keys of map value v in the order the range yields them: those the
\* call's order names, in that order, then the others
RECURSIVE Rest(_)
Rest(ks) ==
    IF ks = {} THEN <<>>
    ELSE LET key == CHOOSE x \in ks : TRUE IN <<key>> \o Rest(ks \ {key})

RangeOrder(s, v) ==
    LET ks == MapKeys(s.h, v)
        F[i \in 0..Len(s.order)] ==
            IF i = 0 THEN <<>>
            ELSE IF s.order[i] \in ks THEN Append(F[i - 1], s.order[i])
            ELSE F[i - 1]
    IN  F[Len(s.order)] \o Rest(ks \ {s.order[i] : i \in 1..Len(s.order)})

\* case reflect.Map, dst taking src's map itself
mergeMapShared(dst, src, s, c) == Set(s, dst, src)

\* case reflect.Map
mergeMap(dst, src, s, c) ==
    LET d  == Load(s.h, dst)
        sv == Load(s.h, src)
        s1 == IF IsNilV(d) /\ ~IsNilV(sv) /\ MapLen(s.h, sv) > 0
              THEN LET r == Alloc(s.h, MapObj(EmptyMap))
                   IN  SetValue([s EXCEPT !.h = r.h], dst, MapV(r.a), dst.t, FALSE)
              ELSE s
    IN  IF s1.err # "" THEN s1
        ELSE IF Load(s1.h, dst).a = Load(s1.h, src).a THEN s1
        ELSE LET s2 == mergeEntries(dst, src, s1, c,
                                    RangeOrder(s1, Load(s1.h, src)))
             IN  IF s2.err # "" THEN s2
                 ELSE IF c.overwriteWithEmptyValue
                 THEN deleteMissing(dst, src, s2)
                 ELSE s2

\* the switch on dst.Kind()
mergeKind(dst, src, s, c) ==
    CASE Kind(dst.t) = "array"  -> mergeArray(dst, src, s, c)
      [] Kind(dst.t) = "slice"  -> mergeSlice(dst, src, s, c)
      [] Kind(dst.t) = "iface"  -> mergeInterface(dst, src, s, c)
      [] Kind(dst.t) = "ptr"    -> mergePointer(dst, src, s, c)
      [] Kind(dst.t) = "struct" -> mergeStruct(dst, src, s, c)
      [] Kind(dst.t) = "map"    -> mergeMap(dst, src, s, c)
      [] OTHER                  -> normalMerge(dst, src, s, c)

\* a visit that does nothing
deepValueMergeSkipped(dst, src, s, c) == s

deepValueMerge(dst, src, s, c) ==
    IF ~IsValid(dst) \/ ~IsValid(src)
    THEN IF IsValid(dst) = IsValid(src) THEN s
         ELSE Fail(s, "dst.IsValid() != src.IsValid()")
    ELSE IF dst.t # src.t THEN Fail(s, "type mismatch")
    ELSE IF hard(s.h, src) /\ visit(s.h, src) \in s.visited
    THEN shallowCopy(dst, src, s)
    ELSE LET s1 == IF hard(s.h, src)
                   THEN [s EXCEPT !.visited = @ \cup {visit(s.h, src)},
                                  !.registered = Append(@, visit(s.h, src))]
                   ELSE s
         IN  IF dst.t \in DOMAIN c.transformers
             THEN CallTransformer(s1, dst, src, c.transformers[dst.t])
             ELSE mergeKind(dst, src, s1, c)

(***************************************************************************)
(* DeepMerge: the entry point.  dst and src are the two `any` arguments,   *)
(* immediate handles carrying the dynamic type (Invalid for a nil          *)
(* interface).                                                             *)
(***************************************************************************)
\* Value.Elem on a pointer handle: the invalid Value for a nil pointer
Elem(h, x) == IF IsNilV(Load(h, x)) THEN Invalid ELSE PtrElemH(h, x)

\* the by-value destinations the entry check lets through
sliceMerge(h, vdst, vsrc) ==
    /\ Kind(vdst.t) = "slice"
    /\ Kind(vsrc.t) = "slice"
    /\ Load(h, vdst).len >= Load(h, vsrc).len

\* an exception that admits every dst
mapMergeAlways(h, vdst, vsrc) == TRUE

mapMerge(h, vdst, vsrc) ==
    /\ Kind(vdst.t) = "map"
    /\ \/ ~IsNilV(Load(h, vdst))
       \/ Kind(vsrc.t) = "map"
          /\ MapLen(h, Load(h, vdst)) = MapLen(h, Load(h, vsrc))

\* the unwrapping of dst: one dereference, a second one for a pointer to a
\* pointer, whose inner pointer is allocated when nil
unwrapDst(s, vdst) ==
    IF Kind(vdst.t) # "ptr" THEN [s |-> s, x |-> vdst]
    ELSE LET e == Elem(s.h, vdst) IN
         IF Kind(e.t) # "ptr" THEN [s |-> s, x |-> e]
         ELSE IF IsNilV(Load(s.h, e))
         THEN LET n  == New(s, ElemOf(e.t))
                  s1 == SetValue(n.s, e, Ptr(n.x.a), e.t, FALSE)
              IN  [s |-> s1, x |-> Elem(s1.h, e)]
         ELSE [s |-> s, x |-> Elem(s.h, e)]

unwrapSrc(s, vsrc) ==
    IF Kind(vsrc.t) = "ptr" THEN Elem(s.h, vsrc) ELSE vsrc

DeepMerge(dst, src, s, c) ==
    IF ~IsValid(dst) \/ ~IsValid(src) THEN Fail(s, "dst or src is nil")
    ELSE IF Kind(dst.t) # "ptr"
            /\ ~sliceMerge(s.h, dst, src) /\ ~mapMerge(s.h, dst, src)
    THEN Fail(s, "dst must have kind Pointer")
    ELSE LET d    == unwrapDst(s, dst)
             vsrc == unwrapSrc(d.s, src)
         IN  IF d.s.err # "" THEN d.s
             ELSE IF ~IsValid(d.x) \/ ~IsValid(vsrc)
             THEN Fail(d.s, "panic: reflect.Value.Type on zero Value")
             ELSE IF d.x.t # vsrc.t THEN Fail(d.s, "type mismatch")
             ELSE deepValueMerge(d.x, vsrc, d.s, c)

(***************************************************************************)
(* Numbers.  An integer value carries the integer itself; a float carries  *)
(* its value in quarters (so 2.5 is 10) and is kept to the mantissa of its *)
(* type, rounding to nearest even; a complex carries two such parts.  The  *)
(* conversions are Go's: float to integer truncates toward zero and, when  *)
(* the result does not fit, yields what the target machine yields.         *)
(***************************************************************************)
\* the number of float units in 1.0
Frac == 4

Abs(n) == IF n < 0 THEN -n ELSE n

\* the two's-complement value of n in a signed, an unsigned integer
WrapInt(n, bits)  == ((n + 2^(bits - 1)) % 2^bits) - 2^(bits - 1)
WrapUint(n, bits) == n % 2^bits

MinInt64  == -(2^(Bits64 - 1))
MaxInt64  == 2^(Bits64 - 1) - 1
MaxUint64 == 2^Bits64 - 1

\* q (in float units) rounded to a mantissa of m bits, ties to even
RoundMant(q, m) ==
    IF Abs(q) < 2^m THEN q
    ELSE LET k    == CHOOSE k \in 1..(30 - m) :
                        Abs(q) < 2^(m + k) /\ Abs(q) >= 2^(m + k - 1)
             unit == 2^k
             lo   == (Abs(q) \div unit) * unit
             rem  == Abs(q) - lo
             r    == IF 2 * rem < unit THEN lo
                     ELSE IF 2 * rem > unit THEN lo + unit
                     ELSE IF (lo \div unit) % 2 = 0 THEN lo ELSE lo + unit
         IN  IF q < 0 THEN -r ELSE r

\* float64(i) for an integer i
Float64(i) == RoundMant(i * Frac, Mant64)

\* the integer part of the float f, truncated toward zero
Trunc(f) == IF f < 0 THEN -((-f) \div Frac) ELSE f \div Frac

\* int64(f): out of range, amd64 yields the "integer indefinite" value
\* and arm64 saturates
Int64(f, arch) ==
    LET i == Trunc(f) IN
    IF i >= MinInt64 /\ i <= MaxInt64 THEN i
    ELSE IF arch = "amd64" THEN MinInt64
    ELSE IF i < 0 THEN MinInt64 ELSE MaxInt64

\* uint64(f): out of range, amd64 converts through int64 (flipping the top
\* bit for large values) and arm64 saturates
Uint64(f, arch) ==
    LET i == Trunc(f) IN
    IF i >= 0 /\ i <= MaxUint64 THEN i
    ELSE IF arch = "amd64"
    THEN IF i < 0 THEN WrapUint(Int64(f, arch), Bits64) ELSE 0
    ELSE IF i < 0 THEN 0 ELSE MaxUint64

\* math.MaxFloat32, in float units: beyond every integer, below the
\* largest float64
MaxFloat32 == 2^(Bits64 + 1) * Frac

\* Value.OverflowInt, OverflowUint, OverflowFloat, OverflowComplex
OverflowInt(t, i)   == WrapInt(i, t.bits) # i
OverflowUint(t, u)  == WrapUint(u, t.bits) # u
OverflowFloat(t, f) ==
    t.bits < Mant64 /\ Abs(f) > MaxFloat32
OverflowComplex(t, re, im) == OverflowFloat(t, re) \/ OverflowFloat(t, im)

Cplx(re, im) == [k |-> "c", re |-> re, im |-> im]

\* Go's kind of a type: the numeric kinds differ by width
SameKind(a, b) == a.kind = b.kind /\ a.bits = b.bits
IsUint8(t)     == t.kind = "uint" /\ t.bits = Bits8
IsInt32(t)     == t.kind = "int" /\ t.bits = Bits32

\* the UTF-8 encoding of rune r, string(rune(r))
UTF8(r) ==
    IF r >= 0 /\ r < 128 THEN <<r>>
    ELSE IF r >= 128 /\ r < 2048
    THEN <<192 + (r \div 64), 128 + (r % 64)>>
    ELSE IF r >= 2048 /\ r < 65536 /\ ~(r >= 55296 /\ r < 57344)
    THEN <<224 + (r \div 4096), 128 + ((r \div 64) % 64), 128 + (r % 64)>>
    ELSE <<239, 191, 189>>

(***************************************************************************)
(* Type relations and reflect.Value.Convert.                               *)
(***************************************************************************)
IsNumber(t) == t.kind \in {"int", "uint", "float"}

\* st.AssignableTo(dt)
AssignableTo(st, dt) == st = dt \/ (Kind(dt) = "iface" /\ Kind(st) # "invalid")

\* st.ConvertibleTo(dt), for the types that are not assignable
ConvertibleTo(st, dt) ==
    \/ AssignableTo(st, dt)
    \/ IsNumber(st) /\ IsNumber(dt)
    \/ Kind(st) = "complex" /\ Kind(dt) = "complex"
    \/ Kind(st) \in {"int", "uint"} /\ Kind(dt) = "string"
    \/ Kind(st) = "string" /\ Kind(dt) = "string"
    \/ Kind(st) = "string" /\ Kind(dt) = "slice"
       /\ (IsUint8(ElemOf(dt)) \/ IsInt32(ElemOf(dt)))
    \/ Kind(st) = "slice" /\ Kind(dt) = "string"
       /\ (IsUint8(ElemOf(st)) \/ IsInt32(ElemOf(st)))

\* se.Type().Implements(dst.Type()): every type implements `any`
Implements(st, dt) == Kind(dt) = "iface"

\* the numeric conversions of Value.Convert: wrap, truncate and round
\* silently
ConvertNum(v, st, dt, arch) ==
    LET sk == Kind(st)
        dk == Kind(dt)
        db == dt.bits
    IN  CASE sk \in {"int", "uint"} /\ dk = "int"  -> Num(WrapInt(v.n, db))
          [] sk \in {"int", "uint"} /\ dk = "uint" -> Num(WrapUint(v.n, db))
          [] sk \in {"int", "uint"} /\ dk = "float" ->
                Num(RoundMant(v.n * Frac, db))
          [] sk = "float" /\ dk = "int"  -> Num(WrapInt(Int64(v.n, arch), db))
          [] sk = "float" /\ dk = "uint" -> Num(WrapUint(Uint64(v.n, arch), db))
          [] sk = "float" /\ dk = "float" -> Num(RoundMant(v.n, db))
          [] OTHER -> Cplx(RoundMant(v.re, db), RoundMant(v.im, db))

\* string(rs) for a sequence of rune values: the concatenated encodings
RECURSIVE Encode(_)
Encode(rs) == IF rs = <<>> THEN <<>> ELSE UTF8(Head(rs).n) \o Encode(Tail(rs))

\* src.Convert(dt) on the value v of type st (st convertible to dt); a
\* conversion to or from a slice needs the heap and is done by the caller
ConvertV(v, st, dt, arch) ==
    CASE st = dt -> v
      [] Kind(dt) = "iface" -> Iface(st, v)
      [] Kind(dt) = "string" /\ Kind(st) \in {"int", "uint"} ->
            IF WrapInt(v.n, Bits32) = v.n THEN Str(UTF8(v.n))
            ELSE Str(UTF8(-1))
      [] Kind(dt) = "string" -> v
      [] OTHER -> ConvertNum(v, st, dt, arch)

\* a lower-casing that leaves the name as it is
ToLowerKept(name) == name

\* unicode.ToLower of the first letter of a field name
ToLower(name) ==
    CASE name = "A" -> "a"
      [] name = "B" -> "b"
      [] name = "I" -> "i"
      [] name = "M" -> "m"
      [] name = "P" -> "p"
      [] name = "S" -> "s"
      [] name = "T" -> "t"
      [] OTHER      -> name

\* the interface value itself, not what it holds
ValueOfInterfaceKept(h, x) == Imm(Load(h, x), x.t, FALSE)

\* reflect.ValueOf(x.Interface()): the dynamic value, the invalid Value for
\* a nil interface
ValueOfInterface(h, x) ==
    LET v == Load(h, x) IN
    IF Kind(x.t) # "iface" THEN Imm(v, x.t, FALSE)
    ELSE IF IsNilV(v) THEN Invalid
    ELSE Imm(v.v, v.t, FALSE)

\* Value.Len and Value.Index(i) (0-based) of a string, array or slice
LenOf(h, x) ==
    CASE Kind(x.t) = "string" -> Len(Load(h, x).s)
      [] Kind(x.t) = "array"  -> x.t.len
      [] OTHER                -> Load(h, x).len

IndexH(h, x, i) ==
    CASE Kind(x.t) = "string" ->
            Imm(Num(Load(h, x).s[i + 1]), Numeric("uint8", "uint", Bits8), x.ro)
      [] Kind(x.t) = "array"  -> FieldH(h, x, i + 1)
      [] OTHER                -> SliceIndexH(h, x, i)

(***************************************************************************)
(* deepValueMap: the Cross-Kind traversal.                                 *)
(***************************************************************************)
RECURSIVE deepValueMap(_, _, _, _)
RECURSIVE mapElems(_, _, _, _, _)
RECURSIVE mapFieldsFromMap(_, _, _, _, _)
RECURSIVE mapFields(_, _, _, _, _)
RECURSIVE mapKeysFromStruct(_, _, _, _, _)
RECURSIVE mapEntries(_, _, _, _, _)

\* the write rule of the scalar cases: v is the coerced value, zero
\* whether it is the zero value, xro whether it is read-only
mapWrite(dst, src, s, c, v, zero, xro) ==
    IF (IsZeroV(Load(s.h, dst)) \/ c.overwrite)
       /\ (~zero \/ c.overwriteWithEmptyValue)
    THEN IF c.typeCheck /\ c.overwrite /\ dst.t # src.t
         THEN Fail(s, "overwrite two different types")
         ELSE SetValue(s, dst, v, dst.t, xro)
    ELSE s

\* the final rule: "Normal map suffices"
normalMap(dst, src, s, c) ==
    IF ~SameKind(dst.t, src.t) THEN Fail(s, "can not represents")
    ELSE IF ~ConvertibleTo(src.t, dst.t)
    THEN Fail(s, "is not assignable to and convertible to")
    ELSE LET v == Load(s.h, src) IN
         mapWrite(dst, src, s, c, ConvertV(v, src.t, dst.t, s.arch),
                  IsZeroV(v), src.ro)

\* the element loop of the array and slice cases (i is 0-based)
mapElems(dst, src, s, c, i) ==
    IF ~(i < LenOf(s.h, dst) /\ i < LenOf(s.h, src)) THEN s
    ELSE LET s1 == deepValueMap(IndexH(s.h, dst, i), IndexH(s.h, src, i), s, c)
         IN  IF s1.err # "" THEN s1 ELSE mapElems(dst, src, s1, c, i + 1)

\* case reflect.Array
mapArray(dst, src, s, c) ==
    IF \/ Kind(src.t) \in {"array", "slice"}
       \/ Kind(src.t) = "string" /\ IsUint8(ElemOf(dst.t))
    THEN mapElems(dst, src, s, c, 0)
    ELSE normalMap(dst, src, s, c)

\* the overwriteEmptySlice rule: only the nil-ness of a slice src is copied
mapEmptySlice(dst, src, s) ==
    LET d  == Load(s.h, dst)
        sv == Load(s.h, src)
    IN  IF Kind(src.t) = "slice" /\ IsNilV(d) # IsNilV(sv)
        THEN IF dst.t = src.t THEN Set(s, dst, src)
             ELSE IF IsNilV(sv)
             THEN SetValue(s, dst, ZeroOf(dst.t), dst.t, FALSE)
             ELSE SetValue(s, dst, Slice(ZeroBase, 0), dst.t, FALSE)
        ELSE s

\* the elements the appendSlice rule appends, converted to dst's element
\* type, and the type of the slice that holds them
appendOperand(dst, src, s) ==
    LET de == ElemOf(dst.t)
        n  == LenOf(s.h, src)
        conv == [i \in 1..n |->
                    LET x == IndexH(s.h, src, i - 1) IN
                    ConvertV(Load(s.h, x), x.t, de, s.arch)]
    IN  IF Kind(src.t) = "string"
        THEN [err |-> "", e |-> conv, t |-> SliceOf(de)]
        ELSE IF ElemOf(src.t) = de
        THEN IF Kind(src.t) = "array"
             THEN IF CanAddr(src)
                  THEN [err |-> "", e |-> Load(s.h, src).e, t |-> SliceOf(de)]
                  ELSE [err |-> "panic: reflect.AppendSlice", e |-> <<>>,
                        t |-> src.t]
             ELSE [err |-> "", e |-> SliceElems(s.h, Load(s.h, src)),
                   t |-> src.t]
        ELSE IF ~ConvertibleTo(ElemOf(src.t), de)
        THEN [err |-> "src element type can not convertible to dst element type",
              e |-> <<>>, t |-> src.t]
        ELSE IF src.ro /\ n > 0
        THEN [err |-> "panic: reflect.Value.Set", e |-> <<>>, t |-> src.t]
        ELSE [err |-> "", e |-> conv, t |-> SliceOf(de)]

\* the appendSlice rule
mapAppend(dst, src, s) ==
    LET ss == appendOperand(dst, src, s) IN
    IF ss.err # "" THEN Fail(s, ss.err)
    ELSE IF ss.t # dst.t THEN Fail(s, "panic: reflect.AppendSlice")
    ELSE LET r == AppendElems(s.h, Load(s.h, dst), ss.e, ElemOf(dst.t))
         IN  SetValue([s EXCEPT !.h = r.h], dst, r.v, dst.t, FALSE)

\* the growth of dst to n elements
mapGrow(dst, n, s) ==
    LET d == Load(s.h, dst) IN
    IF ~(d.len < n) THEN s
    ELSE IF n <= SliceCap(s.h, d)
    THEN SetValue(s, dst, Slice(d.a, n), dst.t, dst.ro)
    ELSE LET r == MakeSliceCopy(s.h, d, n, ElemOf(dst.t))
         IN  SetValue([s EXCEPT !.h = r.h], dst, r.v, dst.t, FALSE)

\* dst.Index(i).SetZero() for every i in n .. dst.Len()-1
mapZeroTail(dst, n, s) ==
    LET d == Load(s.h, dst) IN
    IF n >= d.len THEN s
    ELSE IF dst.ro THEN Fail(s, "panic: reflect.Value.SetZero")
    ELSE [s EXCEPT !.h = [@ EXCEPT ![d.a] = [@ EXCEPT !.e =
            [i \in 1..Len(@) |->
                IF i > n /\ i <= d.len
                THEN ZeroOf(ElemOf(dst.t)) ELSE @[i]]]]]

\* case reflect.Slice
mapSlice(dst, src, s, c) ==
    IF ~(\/ Kind(src.t) \in {"slice", "array"}
         \/ Kind(src.t) = "string" /\ IsUint8(ElemOf(dst.t)))
    THEN Fail(s, "src must have kind Slice or Array")
    ELSE IF LenOf(s.h, dst) = 0
            /\ (LenOf(s.h, src) = 0 /\ c.overwriteEmptySlice)
    THEN mapEmptySlice(dst, src, s)
    ELSE IF c.appendSlice THEN mapAppend(dst, src, s)
    ELSE LET s1 == mapGrow(dst, LenOf(s.h, src), s) IN
         IF s1.err # "" THEN s1
         ELSE IF Kind(src.t) = "array"
         THEN Fail(s1, "panic: reflect.Value.UnsafePointer")
         ELSE IF Kind(src.t) = "slice"
                 /\ Load(s1.h, dst).a = Load(s1.h, src).a
         THEN s1
         ELSE LET s2 == mapElems(dst, src, s1, c, 0) IN
              IF s2.err # "" THEN s2
              ELSE IF c.overwriteWithEmptyValue
              THEN mapZeroTail(dst, LenOf(s2.h, src), s2)
              ELSE s2

\* the pointer or interface is left as it was
mapNoDerefSkipped(dst, src, s, c) == s

\* the shouldNotDereference rule of the interface and pointer cases
mapNoDeref(dst, src, s, c) ==
    IF (IsNilV(Load(s.h, dst)) \/ c.overwrite)
       /\ (Kind(src.t) = Kind(dst.t)
           /\ (~IsNilV(Load(s.h, src)) \/ c.overwriteWithEmptyValue))
    THEN IF dst.t = src.t THEN Set(s, dst, src)
         ELSE IF ConvertibleTo(src.t, dst.t)
         THEN SetValue(s, dst, Load(s.h, src), dst.t, src.ro)
         ELSE s
    ELSE s

\* the tail of case reflect.Interface, leaving dst as it is
mapHeldKept(dst, se, s, c) == s

\* the tail of case reflect.Interface: se is the value to map from
mapHeld(dst, se, s, c) ==
    LET d  == Load(s.h, dst)
        n  == New(s, IF IsNilV(d) THEN se.t ELSE d.t)
        s1 == IF IsNilV(d) THEN n.s
              ELSE SetValue(n.s, n.x, d.v, d.t, dst.ro)
    IN  IF s1.err # "" THEN s1
        ELSE IF ~SameKind(n.x.t, se.t)
        THEN IF c.overwrite /\ ~c.appendSlice
             THEN IF ~Implements(se.t, dst.t)
                  THEN Fail(s1, "overwrite src type not implements dst interface type")
                  ELSE IF n.x.t # se.t /\ c.typeCheck
                  THEN Fail(s1, "overwrite interface value with difference concrete type")
                  ELSE Set(s1, dst, se)
             ELSE s1
        ELSE LET s2 == deepValueMap(n.x, se, s1, c) IN
             IF s2.err # "" THEN s2 ELSE Set(s2, dst, n.x)

\* case reflect.Interface
mapInterface(dst, src, s, c) ==
    LET d  == Load(s.h, dst)
        sv == Load(s.h, src)
    IN  IF c.shouldNotDereference THEN mapNoDeref(dst, src, s, c)
        ELSE IF Kind(src.t) # "iface" THEN mapHeld(dst, src, s, c)
        ELSE IF IsNilV(d) /\ IsNilV(sv) THEN s
        ELSE IF IsNilV(sv)
        THEN IF ~IsZeroV(d.v) /\ c.overwriteWithEmptyValue
             THEN SetValue(s, dst, ZeroOf(d.t), d.t, FALSE)
             ELSE s
        ELSE mapHeld(dst, IfaceElemH(s.h, src), s, c)

\* the runtime's end of a goroutine whose recursion does not end
StackOverflow == "fatal error: stack overflow"

\* whether following the pointer v at most n times arrives at nil
RECURSIVE ReachesNil(_, _, _)
ReachesNil(h, v, n) ==
    IF v.a = 0 THEN TRUE
    ELSE IF n = 0 THEN FALSE
    ELSE ReachesNil(h, h[v.a].e[1], n - 1)

\* case reflect.Pointer
mapPointer(dst, src, s, c) ==
    LET d  == Load(s.h, dst)
        sv == Load(s.h, src)
    IN  IF c.shouldNotDereference THEN mapNoDeref(dst, src, s, c)
        ELSE IF Kind(src.t) = "string"
        THEN \* the data pointer of the empty string literal is nil
             IF IsNilV(d) /\ Load(s.h, src).s = <<>> THEN s
             ELSE Fail(s, "panic: reflect.Value.IsNil")
        ELSE IF Kind(src.t) \notin {"ptr", "map", "slice", "chan", "func"}
        THEN Fail(s, "panic: reflect.Value.UnsafePointer")
        ELSE IF IsNilV(d) /\ IsNilV(sv) THEN s
        ELSE IF Kind(src.t) \in {"ptr", "map", "slice"} /\ d.a = sv.a THEN s
        ELSE IF IsNilV(sv)
        THEN IF ~IsZeroV(Load(s.h, PtrElemH(s.h, dst)))
                /\ c.overwriteWithEmptyValue
             THEN IF dst.ro THEN Fail(s, "panic: reflect.Value.SetZero")
                  ELSE [s EXCEPT !.h = Store(s.h, PtrElemH(s.h, dst),
                                             ZeroOf(ElemOf(dst.t)))]
             ELSE s
        ELSE LET s1 == IF IsNilV(d)
                       THEN LET n == New(s, ElemOf(dst.t))
                            IN  SetValue(n.s, dst, Ptr(n.x.a), dst.t, FALSE)
                       ELSE s
                 se == IF Kind(src.t) = "ptr" THEN PtrElemH(s1.h, src) ELSE src
             IN  IF s1.err # "" THEN s1
                 ELSE IF Kind(src.t) \in {"chan", "func"} /\ ElemOf(dst.t) = dst.t
                 THEN \* src stays, is not hard, and dst.Elem() is a pointer
                      \* of dst's type again at every level
                      IF dst.ro /\ ReachesNil(s1.h, Load(s1.h, dst), Len(s1.h))
                      THEN Fail(s1, "panic: reflect.Value.Set")
                      ELSE Fail(s1, StackOverflow)
                 ELSE deepValueMap(PtrElemH(s1.h, dst), se, s1, c)

\* the fields deepValueMap fills from a map: the exported ones
mapFieldsFromMap(dst, src, s, c, i) ==
    IF i > Len(dst.t.fields) THEN s
    ELSE LET f  == dst.t.fields[i]
             e1 == MapIndexH(s.h, src, f.name)
             e2 == IF IsValid(e1) THEN e1
                   ELSE MapIndexH(s.h, src, ToLower(f.name))
         IN  IF ~f.exported \/ ~IsValid(e2)
             THEN mapFieldsFromMap(dst, src, s, c, i + 1)
             ELSE IF e2.ro THEN Fail(s, "panic: reflect.Value.Interface")
             ELSE LET se  == ValueOfInterface(s.h, e2)
                      df  == FieldH(s.h, dst, i)
                      s1  == IF Kind(df.t) = "ptr" /\ IsNilV(Load(s.h, df))
                             THEN LET n == New(s, ElemOf(df.t))
                                  IN  SetValue(n.s, df, Ptr(n.x.a), df.t, FALSE)
                             ELSE s
                      df1 == IF Kind(df.t) = "ptr" /\ s1.err = ""
                             THEN PtrElemH(s1.h, df) ELSE df
                      s2  == IF s1.err # "" THEN s1
                             ELSE deepValueMap(df1, se, s1, c)
                  IN  IF s2.err # "" THEN s2
                      ELSE mapFieldsFromMap(dst, src, s2, c, i + 1)

\* the field loop of struct from struct, up to the shorter field list
mapFields(dst, src, s, c, i) ==
    IF i > Len(dst.t.fields) \/ i > Len(src.t.fields) THEN s
    ELSE IF ~MergeVisits(dst.t, i) THEN mapFields(dst, src, s, c, i + 1)
    ELSE LET s1 == deepValueMap(FieldH(s.h, dst, i), FieldH(s.h, src, i), s, c)
         IN  IF s1.err # "" THEN s1 ELSE mapFields(dst, src, s1, c, i + 1)

\* case reflect.Struct
mapStruct(dst, src0, s, c) ==
    LET src == IF Kind(src0.t) = "ptr" THEN Elem(s.h, src0) ELSE src0
        df  == dst.t.fields
    IN  CASE Kind(src.t) = "map" ->
                IF \E i \in 1..Len(df) : df[i].exported
                THEN mapFieldsFromMap(dst, src, s, c, 1)
                ELSE normalMap(dst, src, s, c)
          [] Kind(src.t) = "struct" ->
                IF \E i \in 1..Len(df) :
                        i <= Len(src.t.fields) /\ MergeVisits(dst.t, i)
                THEN mapFields(dst, src, s, c, 1)
                ELSE normalMap(dst, src, s, c)
          [] OTHER -> Fail(s, "cannot be represents")

\* the keys deepValueMap fills from a struct: one per exported field
mapKeysFromStruct(dst, src, s, c, i) ==
    IF i > Len(src.t.fields) THEN s
    ELSE LET f   == src.t.fields[i]
             k   == IF IsValid(MapIndexH(s.h, dst, f.name)) THEN f.name
                    ELSE ToLower(f.name)
             old == MapIndexH(s.h, dst, k)
         IN  IF ~f.exported THEN mapKeysFromStruct(dst, src, s, c, i + 1)
             ELSE IF IsValid(old) /\ old.ro
             THEN Fail(s, "panic: reflect.Value.Interface")
             ELSE LET cur == IF IsValid(old) THEN ValueOfInterface(s.h, old)
                             ELSE Invalid
                  IN  IF IsValid(old) /\ ~IsValid(cur)
                      THEN Fail(s, "panic: reflect.Value.Type on zero Value")
                      ELSE LET n  == New(s, IF IsValid(old) THEN cur.t ELSE f.typ)
                               s1 == IF IsValid(old)
                                     THEN SetValue(n.s, n.x, cur.v, cur.t, FALSE)
                                     ELSE n.s
                               s2 == deepValueMap(n.x, FieldH(s1.h, src, i), s1, c)
                               s3 == IF s2.err # "" THEN s2
                                     ELSE IF ~AssignableTo(n.x.t, ElemOf(dst.t))
                                     THEN Fail(s2, "panic: reflect.Value.SetMapIndex")
                                     ELSE SetMapIndex(s2, dst, k,
                                            Assigned(ElemOf(dst.t), n.x.t,
                                                     Load(s2.h, n.x)), FALSE)
                           IN  IF s3.err # "" THEN s3
                               ELSE mapKeysFromStruct(dst, src, s3, c, i + 1)

\* one iteration of the range over a map src, for the keys still to come
mapEntries(dst, src, s, c, keys) ==
    IF keys = <<>> THEN s
    ELSE LET key  == Head(keys)
             val1 == MapIndexH(s.h, src, key)
             old  == MapIndexH(s.h, dst, key)
         IN  IF ~IsValid(val1) THEN mapEntries(dst, src, s, c, Tail(keys))
             ELSE LET n  == New(s, IF IsValid(old) THEN old.t ELSE val1.t)
                      s1 == IF IsValid(old)
                            THEN SetValue(n.s, n.x, old.v, old.t, old.ro)
                            ELSE n.s
                      s2 == IF s1.err # "" THEN s1
                            ELSE deepValueMap(n.x, val1, s1, c)
                      s3 == IF s2.err # "" THEN s2
                            ELSE IF ~AssignableTo(n.x.t, ElemOf(dst.t))
                            THEN Fail(s2, "panic: reflect.Value.SetMapIndex")
                            ELSE SetMapIndex(s2, dst, key,
                                    Assigned(ElemOf(dst.t), n.x.t,
                                             Load(s2.h, n.x)), src.ro)
                  IN  IF s3.err # "" THEN s3
                      ELSE mapEntries(dst, src, s3, c, Tail(keys))

\* case reflect.Map
mapMap(dst, src, s, c) ==
    CASE Kind(src.t) = "struct" -> mapKeysFromStruct(dst, src, s, c, 1)
      [] Kind(src.t) = "map" ->
            LET d  == Load(s.h, dst)
                sv == Load(s.h, src)
                s1 == IF IsNilV(d) /\ ~IsNilV(sv) /\ MapLen(s.h, sv) > 0
                      THEN LET r == Alloc(s.h, MapObj(EmptyMap))
                           IN  SetValue([s EXCEPT !.h = r.h], dst, MapV(r.a),
                                        dst.t, FALSE)
                      ELSE s
            IN  IF s1.err # "" THEN s1
                ELSE IF Load(s1.h, dst).a = Load(s1.h, src).a THEN s1
                ELSE LET s2 == mapEntries(dst, src, s1, c,
                                          RangeOrder(s1, Load(s1.h, src)))
                     IN  IF s2.err # "" THEN s2
                         ELSE IF c.overwriteWithEmptyValue
                         THEN deleteMissing(dst, src, s2)
                         ELSE s2
      [] OTHER -> Fail(s, "cannot be represents")

\* case reflect.String
mapString(dst, src, s, c) ==
    LET v  == Load(s.h, src)
        sk == Kind(src.t)
    IN  CASE sk = "int" ->
                IF WrapInt(v.n, Bits32) # v.n
                THEN Fail(s, "cannot be represented as an int32")
                ELSE mapWrite(dst, src, s, c, Str(UTF8(v.n)),
                              UTF8(v.n) = <<>>, FALSE)
          [] sk = "uint" ->
                IF WrapUint(WrapInt(v.n, Bits32), Bits64) # v.n
                THEN Fail(s, "cannot be represented as an int32")
                ELSE mapWrite(dst, src, s, c, Str(UTF8(WrapInt(v.n, Bits32))),
                              UTF8(WrapInt(v.n, Bits32)) = <<>>, FALSE)
          [] sk = "slice" /\ IsUint8(ElemOf(src.t)) ->
                LET bs == [i \in 1..v.len |-> SliceElems(s.h, v)[i].n]
                IN  mapWrite(dst, src, s, c, Str(bs), bs = <<>>, FALSE)
          [] sk = "slice" /\ IsInt32(ElemOf(src.t)) ->
                LET rs == Encode(SliceElems(s.h, v))
                IN  mapWrite(dst, src, s, c, Str(rs), rs = <<>>, FALSE)
          [] sk \in {"slice", "string"} -> normalMap(dst, src, s, c)
          [] OTHER -> Fail(s, "can not represents")

\* the exactness checks of the integer cases: the int64 or uint64 taken
\* from src, or the error
intOf(src, v, arch) ==
    CASE Kind(src.t) = "int"  -> [err |-> "", i |-> v.n]
      [] Kind(src.t) = "uint" ->
            \* src.Uint() != uint64(int64(src.Uint()))
            IF v.n # WrapUint(WrapInt(v.n, Bits64), Bits64)
            THEN [err |-> "cannot be represented", i |-> 0]
            ELSE [err |-> "", i |-> WrapInt(v.n, Bits64)]
      [] Kind(src.t) = "float" ->
            IF v.n # Float64(Int64(v.n, arch))
            THEN [err |-> "cannot be represented", i |-> 0]
            ELSE [err |-> "", i |-> Int64(v.n, arch)]
      [] Kind(src.t) = "complex" ->
            IF v.im # 0 \/ v.re # Float64(Int64(v.re, arch))
            THEN [err |-> "cannot be represented", i |-> 0]
            ELSE [err |-> "", i |-> Int64(v.re, arch)]
      [] OTHER -> [err |-> "can not represents", i |-> 0]

uintOf(src, v, arch) ==
    CASE Kind(src.t) = "uint" -> [err |-> "", i |-> v.n]
      [] Kind(src.t) = "int"  ->
            IF v.n < 0 THEN [err |-> "cannot be represented", i |-> 0]
            ELSE [err |-> "", i |-> v.n]
      [] Kind(src.t) = "float" ->
            IF v.n # Float64(Uint64(v.n, arch))
            THEN [err |-> "cannot be represented", i |-> 0]
            ELSE [err |-> "", i |-> Uint64(v.n, arch)]
      [] Kind(src.t) = "complex" ->
            IF v.im # 0 \/ v.re # Float64(Uint64(v.re, arch))
            THEN [err |-> "cannot be represented", i |-> 0]
            ELSE [err |-> "", i |-> Uint64(v.re, arch)]
      [] OTHER -> [err |-> "can not represents", i |-> 0]

\* the float64 taken from src, or the error
floatOf(src, v, arch) ==
    CASE Kind(src.t) = "float" -> [err |-> "", f |-> v.n]
      [] Kind(src.t) = "int"  ->
            IF v.n # Int64(Float64(v.n), arch)
            THEN [err |-> "cannot be represented", f |-> 0]
            ELSE [err |-> "", f |-> Float64(v.n)]
      [] Kind(src.t) = "uint" ->
            IF v.n # Uint64(Float64(v.n), arch)
            THEN [err |-> "cannot be represented", f |-> 0]
            ELSE [err |-> "", f |-> Float64(v.n)]
      [] OTHER -> [err |-> "can not represents", f |-> 0]

\* the complex128 taken from src, or the error
complexOf(src, v) ==
    CASE Kind(src.t) = "complex" -> [err |-> "", re |-> v.re, im |-> v.im]
      [] Kind(src.t) = "float"   -> [err |-> "", re |-> v.n, im |-> 0]
      [] Kind(src.t) \in {"int", "uint"} ->
            [err |-> "", re |-> Float64(v.n), im |-> 0]
      [] OTHER -> [err |-> "can not represents", re |-> 0, im |-> 0]

\* case reflect.Int ... reflect.Int64
mapInt(dst, src, s, c) ==
    LET r == intOf(src, Load(s.h, src), s.arch) IN
    IF r.err # "" THEN Fail(s, r.err)
    ELSE IF OverflowInt(dst.t, r.i) THEN Fail(s, "overflow")
    ELSE mapWrite(dst, src, s, c, Num(r.i), r.i = 0, FALSE)

\* case reflect.Uint ... reflect.Uintptr
mapUint(dst, src, s, c) ==
    LET r == uintOf(src, Load(s.h, src), s.arch) IN
    IF r.err # "" THEN Fail(s, r.err)
    ELSE IF OverflowUint(dst.t, r.i) THEN Fail(s, "overflow")
    ELSE mapWrite(dst, src, s, c, Num(r.i), r.i = 0, FALSE)

\* case reflect.Float32, reflect.Float64: SetFloat rounds to dst's width
mapFloat(dst, src, s, c) ==
    LET r == floatOf(src, Load(s.h, src), s.arch) IN
    IF r.err # "" THEN Fail(s, r.err)
    ELSE IF OverflowFloat(dst.t, r.f) THEN Fail(s, "overflow")
    ELSE mapWrite(dst, src, s, c, Num(RoundMant(r.f, dst.t.bits)),
                  r.f = 0, FALSE)

\* case reflect.Complex64, reflect.Complex128
mapComplex(dst, src, s, c) ==
    LET r == complexOf(src, Load(s.h, src)) IN
    IF r.err # "" THEN Fail(s, r.err)
    ELSE IF OverflowComplex(dst.t, r.re, r.im) THEN Fail(s, "OverflowComplex")
    ELSE mapWrite(dst, src, s, c,
                  Cplx(RoundMant(r.re, dst.t.bits),
                       RoundMant(r.im, dst.t.bits)),
                  r.re = 0 /\ r.im = 0, FALSE)

\* the switch on dst.Kind()
mapKind(dst, src, s, c) ==
    CASE Kind(dst.t) = "array"   -> mapArray(dst, src, s, c)
      [] Kind(dst.t) = "slice"   -> mapSlice(dst, src, s, c)
      [] Kind(dst.t) = "iface"   -> mapInterface(dst, src, s, c)
      [] Kind(dst.t) = "ptr"     -> mapPointer(dst, src, s, c)
      [] Kind(dst.t) = "struct"  -> mapStruct(dst, src, s, c)
      [] Kind(dst.t) = "map"     -> mapMap(dst, src, s, c)
      [] Kind(dst.t) = "string"  -> mapString(dst, src, s, c)
      [] Kind(dst.t) = "int"     -> mapInt(dst, src, s, c)
      [] Kind(dst.t) = "uint"    -> mapUint(dst, src, s, c)
      [] Kind(dst.t) = "float"   -> mapFloat(dst, src, s, c)
      [] Kind(dst.t) = "complex" -> mapComplex(dst, src, s, c)
      [] OTHER                   -> normalMap(dst, src, s, c)

deepValueMap(dst, src, s, c) ==
    IF ~IsValid(dst) \/ ~IsValid(src)
    THEN IF IsValid(dst) = IsValid(src) THEN s
         ELSE Fail(s, "v1.IsValid() != v2.IsValid()")
    ELSE IF hard(s.h, src) /\ visit(s.h, src) \in s.visited
    THEN IF ~AssignableTo(src.t, dst.t)
         THEN Fail([s EXCEPT !.cycles = @ + 1], "panic: reflect.Set")
         ELSE shallowCopy(dst, src, s)
    ELSE LET s1 == IF hard(s.h, src)
                   THEN [s EXCEPT !.visited = @ \cup {visit(s.h, src)},
                                  !.registered = Append(@, visit(s.h, src))]
                   ELSE s
         IN  IF dst.t \in DOMAIN c.transformers
             THEN CallTransformer(s1, dst, src, c.transformers[dst.t])
             ELSE mapKind(dst, src, s1, c)

(***************************************************************************)
(* DeepMap: the entry point of Map.                                        *)
(***************************************************************************)
\* an entry that admits every pair of kinds
DeepMapAdmitting(dst, src, s, c) ==
    IF ~IsValid(dst) \/ ~IsValid(src) THEN Fail(s, "dst or src is nil")
    ELSE LET d == unwrapDst(s, dst)
         IN  deepValueMap(d.x, unwrapSrc(d.s, src), d.s, c)

DeepMap(dst, src, s, c) ==
    IF ~IsValid(dst) \/ ~IsValid(src) THEN Fail(s, "dst or src is nil")
    ELSE IF Kind(dst.t) # "ptr"
            /\ ~sliceMerge(s.h, dst, src) /\ ~mapMerge(s.h, dst, src)
    THEN Fail(s, "dst must have kind Pointer")
    ELSE LET d    == unwrapDst(s, dst)
             vsrc == unwrapSrc(d.s, src)
         IN  IF d.s.err # "" THEN d.s
             ELSE IF Kind(vsrc.t) = "struct"
                     /\ Kind(d.x.t) \notin {"struct", "map"}
             THEN Fail(d.s, "dst was expected to be a struct or a map")
             ELSE IF Kind(vsrc.t) = "map"
                     /\ Kind(d.x.t) \notin {"map", "struct"}
             THEN Fail(d.s, "dst was expected to be a map or a struct")
             ELSE deepValueMap(d.x, vsrc, d.s, c)

(***************************************************************************)
(* Input values.  A literal is a heap-free description of a Go value: nil, *)
(* &v, a slice literal (with the elements hidden in its spare capacity), a *)
(* map literal, an interface holding a value; scalars, structs and arrays  *)
(* stand for themselves.  Build allocates a literal, DeepValue reads a     *)
(* value back as a literal, which is what reflect.DeepEqual compares.      *)
(***************************************************************************)
LNil           == [k |-> "nil"]
LRef(v)        == [k |-> "ref", v |-> v]
LSlice(e, hid) == [k |-> "lslice", e |-> e, hid |-> hid]
LMap(m)        == [k |-> "lmap", m |-> m]
LIface(t, v)   == [k |-> "lif", t |-> t, v |-> v]
TooDeep        == [k |-> "deep"]

\* the budget of a generated literal: scalar payloads 0..val, slices up to
\* len elements, map keys from keys, interfaces holding the types dyn
Budget(val, len, keys, dyn) ==
    [val |-> val, len |-> len, keys |-> keys, dyn |-> dyn]

RECURSIVE Lits(_, _)
RECURSIVE FieldLits(_, _, _)

FieldLits(t, b, n) ==
    IF n = 0 THEN {<<>>}
    ELSE {Append(p, v) : p \in FieldLits(t, b, n - 1),
                         v \in Lits(t.fields[n].typ, b)}

Lits(t, b) ==
    CASE t.kind \in {"int", "bool", "chan", "func"} ->
            {Num(n) : n \in 0..(IF t.kind = "bool" THEN 1 ELSE b.val)}
      [] t.kind = "string" -> {Str(<<>>)} \cup {Str(<<n>>) : n \in 1..b.val}
      [] t.kind = "ptr"    -> {LNil} \cup {LRef(v) : v \in Lits(t.elem, b)}
      [] t.kind = "slice"  ->
            {LNil} \cup {LSlice(e, <<>>) :
                e \in UNION {[1..n -> Lits(t.elem, b)] : n \in 0..b.len}}
      [] t.kind = "array"  ->
            {Agg(e) : e \in [1..t.len -> Lits(t.elem, b)]}
      [] t.kind = "map"    ->
            {LNil} \cup {LMap(m) :
                m \in UNION {[K -> Lits(t.elem, b)] : K \in SUBSET b.keys}}
      [] t.kind = "struct" ->
            {Agg(e) : e \in FieldLits(t, b, Len(t.fields))}
      [] t.kind = "iface"  ->
            {LNil} \cup UNION {{LIface(dt, v) : v \in Lits(dt, b)} : dt \in b.dyn}

RECURSIVE Build(_, _, _)
RECURSIVE BuildSeq(_, _, _, _)
RECURSIVE BuildMap(_, _, _, _, _)

\* the literals ls[i..] of type ts[i..] allocated in turn
BuildSeq(h, ls, t, acc) ==
    IF Len(acc) = Len(ls) THEN [h |-> h, v |-> acc]
    ELSE LET i == Len(acc) + 1
             r == Build(h, ls[i], ElemType(t, i))
         IN  BuildSeq(r.h, ls, t, Append(acc, r.v))

BuildMap(h, m, et, ks, acc) ==
    IF ks = {} THEN [h |-> h, v |-> acc]
    ELSE LET key == CHOOSE x \in ks : TRUE
             r   == Build(h, m[key], et)
         IN  BuildMap(r.h, m, et, ks \ {key},
                      [x \in DOMAIN acc \cup {key} |->
                          IF x = key THEN r.v ELSE acc[x]])

Build(h, l, t) ==
    CASE l.k = "nil" -> [h |-> h, v |-> ZeroOf(t)]
      [] l.k = "ref" ->
            LET r == Build(h, l.v, ElemOf(t))
                a == Alloc(r.h, ArrObj(<<r.v>>))
            IN  [h |-> a.h, v |-> Ptr(a.a)]
      [] l.k = "lslice" ->
            LET r == BuildSeq(h, l.e \o l.hid, t, <<>>) IN
            IF r.v = <<>> THEN [h |-> r.h, v |-> Slice(ZeroBase, 0)]
            ELSE LET a == Alloc(r.h, ArrObj(r.v))
                 IN  [h |-> a.h, v |-> Slice(a.a, Len(l.e))]
      [] l.k = "lmap" ->
            LET r == BuildMap(h, l.m, ElemOf(t), DOMAIN l.m, EmptyMap)
                a == Alloc(r.h, MapObj(r.v))
            IN  [h |-> a.h, v |-> MapV(a.a)]
      [] l.k = "lif" ->
            LET r == Build(h, l.v, l.t) IN [h |-> r.h, v |-> Iface(l.t, r.v)]
      [] l.k = "agg" ->
            LET r == BuildSeq(h, l.e, t, <<>>) IN [h |-> r.h, v |-> Agg(r.v)]
      [] OTHER -> [h |-> h, v |-> l]

\* the value v of type t read back as a literal, following at most d
\* references
RECURSIVE DeepValue(_, _, _, _)
DeepValue(h, v, t, d) ==
    CASE v.k = "ptr" ->
            IF v.a = 0 THEN LNil
            ELSE IF d = 0 THEN TooDeep
            ELSE LRef(DeepValue(h, h[v.a].e[1], ElemOf(t), d - 1))
      [] v.k = "slice" ->
            IF v.a = 0 THEN LNil
            ELSE IF d = 0 THEN TooDeep
            ELSE LSlice([i \in 1..v.len |->
                            DeepValue(h, h[v.a].e[i], ElemOf(t), d - 1)], <<>>)
      [] v.k = "map" ->
            IF v.a = 0 THEN LNil
            ELSE IF d = 0 THEN TooDeep
            ELSE LMap([x \in DOMAIN h[v.a].m |->
                            DeepValue(h, h[v.a].m[x], ElemOf(t), d - 1)])
      [] v.k = "iface" ->
            IF v.t.kind = "invalid" THEN LNil
            ELSE LIface(v.t, DeepValue(h, v.v, v.t, d))
      [] v.k = "agg" ->
            Agg([i \in 1..Len(v.e) |-> DeepValue(h, v.e[i], ElemType(t, i), d)])
      [] OTHER -> v

(***************************************************************************)
(* The state machine.  Init builds the two arguments of a call in the      *)
(* heap and chooses the options; each action is one top-level call.        *)
(***************************************************************************)
VARIABLES
    heap,        \* the memory the arguments live in
    dstArg,      \* the dst argument (an `any`)
    srcArg,      \* the src argument (an `any`)
    srcPtr,      \* whether the caller passed a pointer to its src value
    backArg,     \* the dst of the way back of a round trip (or invalid)
    cfg,         \* the Config the options build
    opts,        \* the option list a caller keeps passing (SpecCalls)
    order,       \* the order in which this run ranges over map keys
    arch,        \* the machine the program was built for
    calls,       \* top-level calls completed
    op,          \* the entry point of the last call
    err,         \* the error the last call returned ("" for nil)
    heap0,       \* the memory before the last call
    heapI,       \* the memory before the first call
    err0,        \* the error of the call before the last
    registered,  \* the visit keys the last call registered, in order
    cycles,      \* the shallow copies the last call made on a revisit
    invoked      \* the transformer calls the last call made, in order

vars == <<heap, dstArg, srcArg, srcPtr, backArg, cfg, order, arch, calls, op, err,
          heap0, heapI, err0, registered, cycles, invoked, opts>>

NoTransformers == [x \in {} |-> ""]

\* the Configs the flag options can build: WithOverwriteWithEmptyValue
\* sets overwrite too
Flags ==
    {c \in [overwrite : BOOLEAN, overwriteWithEmptyValue : BOOLEAN,
            typeCheck : BOOLEAN, shouldNotDereference : BOOLEAN,
            appendSlice : BOOLEAN, overwriteEmptySlice : BOOLEAN,
            transformers : {NoTransformers}] :
        c.overwriteWithEmptyValue => c.overwrite}

Default == Config(FALSE, FALSE, FALSE, FALSE, FALSE, FALSE, NoTransformers)

Orders == {<<"a", "b">>, <<"b", "a">>}

\* an argument: the value itself, or a pointer to a variable holding it
Arg(h, v, t, byPtr) ==
    IF byPtr
    THEN LET a == Alloc(h, ArrObj(<<v>>))
         IN  [h |-> a.h, x |-> Imm(Ptr(a.a), PtrTo(t), FALSE)]
    ELSE [h |-> h, x |-> Imm(v, t, FALSE)]

\* a case: dst literal dl of type t and src literal sl of type st, each
\* passed by pointer or by value
Case2(t, st, dl, sl, dptr, sptr) ==
    [t |-> t, st |-> st, dl |-> dl, sl |-> sl, dptr |-> dptr, sptr |-> sptr]

Case(t, dl, sl, dptr, sptr) == Case2(t, t, dl, sl, dptr, sptr)

Archs == {"amd64", "arm64"}

\* the state before the first call: the arguments of case cs in memory,
\* Config c, range order o, machine ar and, with back, a pointer to a zero
\* value of src's type
InitWith(cs, c, o, ar, back, os) ==
    LET d  == Build(Heap0, cs.dl, cs.t)
        da == Arg(d.h, d.v, cs.t, cs.dptr)
        sv == Build(da.h, cs.sl, cs.st)
        sa == Arg(sv.h, sv.v, cs.st, cs.sptr)
        ba == IF back THEN Arg(sa.h, ZeroOf(cs.st), cs.st, TRUE)
              ELSE [h |-> sa.h, x |-> Invalid]
    IN  /\ heap = ba.h
        /\ dstArg = da.x
        /\ srcArg = sa.x
        /\ srcPtr = cs.sptr
        /\ backArg = ba.x
        /\ cfg = c
        /\ order = o
        /\ arch = ar
        /\ calls = 0
        /\ op = ""
        /\ err = ""
        /\ heap0 = ba.h
        /\ heapI = ba.h
        /\ err0 = ""
        /\ registered = <<>>
        /\ cycles = 0
        /\ invoked = <<>>
        /\ opts = os

InitArgs(cs, c, o, ar, back) == InitWith(cs, c, o, ar, back, <<>>)

InitCase(cs, c, o) == InitArgs(cs, c, o, "amd64", FALSE)

\* the unwrapped arguments: the variable dst points to, the value of src
Root(h, x) ==
    IF Kind(x.t) = "ptr" /\ ~IsNilV(x.v) THEN Loc(x.v.a, <<1>>, ElemOf(x.t), FALSE)
    ELSE x

DstNow  == Load(heap, Root(heap, dstArg))
DstOld  == Load(heap0, Root(heap0, dstArg))
DstInit == Load(heapI, Root(heapI, dstArg))
SrcRoot == IF srcPtr THEN Root(heap, srcArg) ELSE srcArg
SrcNow  == Load(heap, SrcRoot)
SrcOld  == Load(heap0, SrcRoot)
DstType == Root(heap, dstArg).t
SrcType == SrcRoot.t

\* what reflect.DeepEqual compares: dst and src now, before the last call
\* and before the first
DstDeep     == DeepValue(heap, DstNow, DstType, MaxDepth)
DstDeepOld  == DeepValue(heap0, DstOld, DstType, MaxDepth)
DstDeepInit == DeepValue(heapI, DstInit, DstType, MaxDepth)
SrcDeep     == DeepValue(heap, SrcNow, SrcType, MaxDepth)
SrcDeepOld  == DeepValue(heap0, SrcOld, SrcType, MaxDepth)

\* the effect of a top-level call that ends in state s
Called(s, name) ==
    /\ heap' = s.h
    /\ err' = s.err
    /\ registered' = s.registered
    /\ cycles' = s.cycles
    /\ invoked' = s.invoked
    /\ heap0' = heap
    /\ err0' = err
    /\ calls' = calls + 1
    /\ op' = name
    /\ order' = s.order
    /\ UNCHANGED <<dstArg, srcArg, srcPtr, backArg, cfg, arch, heapI, opts>>

\* the state a call starts in; o is the order its map ranges will take
Start(o) == [CallState(heap, o) EXCEPT !.arch = arch]

\* a call of DeepMerge(dst, src, opts...)
Merge ==
    /\ calls < MaxCalls
    /\ op \in {"", "Merge"}
    /\ \E o \in Orders : Called(DeepMerge(dstArg, srcArg, Start(o), cfg), "Merge")

\* a call of DeepMap(dst, src, opts...)
Map ==
    /\ calls < MaxCalls
    /\ op \in {"", "Map"}
    /\ \E o \in Orders : Called(DeepMap(dstArg, srcArg, Start(o), cfg), "Map")

\* one way of a round trip: there, DeepMap(dst, src, opts...); back, after
\* a successful way there, DeepMap(back, dst, opts...)
MapWay ==
    \E way \in {"Map", "MapBack"} :
        /\ way = "Map" => (calls < MaxCalls /\ op = "")
        /\ way = "MapBack" => (IsValid(backArg) /\ op = "Map" /\ err = "")
        /\ \E o \in Orders :
              Called(DeepMap(IF way = "Map" THEN dstArg ELSE backArg,
                             IF way = "Map" THEN srcArg ELSE dstArg,
                             Start(o), cfg), way)

(***************************************************************************)
(* Spec: Merge under the default policy, called up to MaxCalls times on    *)
(* the same arguments.  dst is passed by pointer (slices and maps also by  *)
(* value), src by value.                                                   *)
(***************************************************************************)
BasicBudget == Budget(MaxVal, MaxLen, Keys, {Ty("int")})
SmallBudget == Budget(MaxVal - 1, MaxLen - 1, {"a"}, {Ty("int")})

BasicTypes ==
    {Ty("int"), Ty("string"), PtrTo(Ty("int")), Ty("[]int"), Ty("[2]int"),
     Ty("map[string]int"), Ty("any"), Ty("TP"), Ty("TU"), Ty("TN"), Ty("TE")}

ByValueTypes == {Ty("[]int"), Ty("map[string]int")}

\* slices whose backing array is longer than the slice
SpareCases ==
    {Case(Ty("[]int"), LSlice(e, hid), sl, TRUE, FALSE) :
        e \in UNION {[1..n -> {Num(0), Num(1)}] : n \in 0..1},
        hid \in {<<Num(2)>>, <<Num(0), Num(2)>>},
        sl \in Lits(Ty("[]int"), BasicBudget)}

BasicCases ==
    UNION {{Case(t, dl, sl, TRUE, FALSE) :
                dl \in Lits(t, BasicBudget), sl \in Lits(t, BasicBudget)} :
           t \in BasicTypes}
    \cup UNION {{Case(t, dl, sl, FALSE, FALSE) :
                dl \in Lits(t, BasicBudget), sl \in Lits(t, BasicBudget)} :
           t \in ByValueTypes}
    \cup {Case(Ty("TC"), dl, sl, TRUE, FALSE) :
                dl \in Lits(Ty("TC"), SmallBudget),
                sl \in Lits(Ty("TC"), SmallBudget)}
    \cup SpareCases

Init == \E cs \in BasicCases : InitCase(cs, Default, <<>>)

Next == Merge

Spec == Init /\ [][Next]_vars

RECURSIVE Populated(_)
Populated(l) ==
    CASE l.k = "s"      -> l.n # 0
      [] l.k = "str"    -> l.s # <<>>
      [] l.k = "ref"    -> Populated(l.v)
      [] l.k = "lslice" -> l.e # <<>> /\ \A i \in 1..Len(l.e) : Populated(l.e[i])
      [] l.k = "lmap"   ->
            DOMAIN l.m # {} /\ \A x \in DOMAIN l.m : Populated(l.m[x])
      [] l.k = "lif"    -> Populated(l.v)
      [] l.k = "agg"    -> \A i \in 1..Len(l.e) : Populated(l.e[i])
      [] OTHER          -> FALSE

\* every struct field in type t is exported (interfaces hold scalars)
RECURSIVE AllExported(_)
AllExported(t) ==
    CASE Kind(t) = "struct" ->
            \A i \in 1..Len(t.fields) :
                t.fields[i].exported /\ AllExported(t.fields[i].typ)
      [] Kind(t) \in {"ptr", "slice", "array", "map"} -> AllExported(ElemOf(t))
      [] OTHER -> TRUE

\* the first call was a Merge of a fully populated src into the zero
\* variable dst points to
ZeroFill ==
    /\ calls = 1
    /\ op = "Merge"
    /\ cfg = Default
    /\ Kind(dstArg.t) = "ptr"
    /\ IsZeroV(DstOld)
    /\ Populated(SrcDeepOld)

LeafTypes == {Ty(n) : n \in {"int", "string", "bool", "chan", "func", "TN", "T"}}
PairTypes == {Ty(n) : n \in {"[2]int", "TE"}}

CrossCases ==
    {Case2(Ty("MyString"), Ty("string"), dl, sl, TRUE, FALSE) :
        dl \in Lits(Ty("string"), BasicBudget),
        sl \in Lits(Ty("string"), BasicBudget)}
    \cup {Case2(Ty("string"), Ty("int"), dl, sl, TRUE, FALSE) :
        dl \in Lits(Ty("string"), BasicBudget),
        sl \in Lits(Ty("int"), BasicBudget)}
    \cup {Case2(Ty("int"), Ty("float64"), dl, Num(f * Frac), TRUE, FALSE) :
        dl \in Lits(Ty("int"), BasicBudget), f \in 0..MaxVal}
    \cup {Case2(Ty("float64"), Ty("int"), Num(f * Frac), sl, TRUE, FALSE) :
        f \in 0..MaxVal, sl \in Lits(Ty("int"), BasicBudget)}

FlagCases ==
    UNION {{Case(t, dl, sl, TRUE, FALSE) :
                dl \in Lits(t, BasicBudget), sl \in Lits(t, BasicBudget)} :
           t \in LeafTypes}
    \cup UNION {{Case(t, dl, sl, TRUE, FALSE) :
                dl \in Lits(t, SmallBudget), sl \in Lits(t, SmallBudget)} :
           t \in PairTypes}
    \cup CrossCases

InitFlags == \E cs \in FlagCases, c \in Flags : InitCase(cs, c, <<>>)

NextFlags == Merge \/ Map

SpecFlags == InitFlags /\ [][NextFlags]_vars

\* src's value as a value of dst's type, for the pairs of CrossCases
Coerced(dt, st, v) ==
    CASE dt = st \/ Kind(dt) = Kind(st) -> v
      [] Kind(dt) = "int" /\ Kind(st) = "float" -> Num(v.n \div Frac)
      [] Kind(dt) = "float" /\ Kind(st) = "int" -> Num(v.n * Frac)
      [] Kind(dt) = "string" /\ Kind(st) = "int" -> Str(<<v.n>>)

\* the scalar-ish nodes below a node of type t: what dst held before the
\* call (o) and holds after it (n), and what src holds (s)
RECURSIVE Leaves(_, _, _, _)
Leaves(t, o, n, sv) ==
    CASE Kind(t) = "struct" /\ (\E i \in 1..Len(t.fields) : MergeVisits(t, i)) ->
            UNION {Leaves(t.fields[i].typ, o.e[i], n.e[i], sv.e[i]) :
                        i \in {j \in 1..Len(t.fields) : MergeVisits(t, j)}}
      [] Kind(t) = "array" ->
            UNION {Leaves(t.elem, o.e[i], n.e[i], sv.e[i]) : i \in 1..t.len}
      [] OTHER -> {[o |-> o, n |-> n, s |-> sv]}

\* the zero-bias write condition
WriteCondition(c, l) ==
    /\ IsZeroV(l.o) \/ c.overwrite
    /\ ~IsZeroV(l.s) \/ c.overwriteWithEmptyValue

\* the nodes of the last call
LastLeaves ==
    Leaves(DstType, DstOld, DstNow, Coerced(DstType, SrcType, SrcOld))

\* the last call visited scalar-ish nodes: a Merge of two values of one
\* type, or a Map
ScalarVisit ==
    /\ calls >= 1
    /\ dstArg.t = PtrTo(DstType)
    /\ DstType \in LeafTypes \cup PairTypes \cup {Ty("MyString"), Ty("float64")}
    /\ op = "Merge" => DstType = SrcType

\* C1 (as stated): zero-bias write rule: at every scalar-ish node, in Merge
\* and in Map, the visit sets dst to src's (coerced) value if and only if
\* (dst was zero or overwrite is set) and (src is non-zero or
\* overwriteWithEmptyValue is set), and leaves dst unchanged otherwise; under
\* the default policy a zero src never changes dst and a non-zero dst is
\* never changed.
C1_WriteRule ==
    ScalarVisit =>
        /\ err = ""
        /\ \A l \in LastLeaves :
                l.n = (IF WriteCondition(cfg, l) THEN l.s ELSE l.o)
        /\ cfg = Default =>
                /\ IsZeroV(SrcOld) => DstNow = DstOld
                /\ \A l \in LastLeaves : ~IsZeroV(l.o) => l.n = l.o


(***************************************************************************)
(* SpecMaps: a map merged into a map by Merge or by Map, dst passed by     *)
(* pointer or by value, under the flag options that reach the map case.    *)
(***************************************************************************)
MapBudget == Budget(MaxVal - 1, MaxLen - 1, Keys, {Ty("int"), Ty("string")})
\* src maps with at most the key "b"
OneKeyBudget == [MapBudget EXCEPT !.keys = {"b"}]

MapTypes ==
    {Ty(n) : n \in {"map[string]*int", "map[string][]int",
                    "map[string]any", "map[string]TU"}}

MapCases ==
    UNION {{Case(t, dl, sl, TRUE, FALSE) :
                dl \in Lits(t, MapBudget), sl \in Lits(t, OneKeyBudget)} :
           t \in MapTypes}
    \cup {Case(Ty("map[string]int"), dl, sl, byPtr, FALSE) :
                dl \in Lits(Ty("map[string]int"), MapBudget),
                sl \in Lits(Ty("map[string]int"), MapBudget),
                byPtr \in BOOLEAN}
    \cup {Case2(Ty("map[string]any"), Ty("map[string]int"), dl, sl, TRUE, FALSE) :
                dl \in Lits(Ty("map[string]any"), MapBudget),
                sl \in Lits(Ty("map[string]int"), OneKeyBudget)}

MapFlags ==
    {c \in Flags : /\ ~c.shouldNotDereference
                   /\ ~c.overwriteEmptySlice
                   /\ ~c.appendSlice}

InitMaps == \E cs \in MapCases, c \in MapFlags : InitCase(cs, c, <<>>)

NextMaps == Merge \/ Map

SpecMaps == InitMaps /\ [][NextMaps]_vars

\* the last call merged a map into a map
MapCall ==
    /\ calls >= 1
    /\ Kind(DstType) = "map"
    /\ Kind(SrcType) = "map"

\* the keys of dst and of src before the last call, and of dst after it
DstKeysOld == MapKeys(heap0, DstOld)
SrcKeysOld == MapKeys(heap0, SrcOld)
DstKeys    == MapKeys(heap, DstNow)

\* what map value mv of type t holds under key
Entry(h, mv, t, key) == DeepValue(h, h[mv.a].m[key], ElemOf(t), MaxDepth)

\* C4: map keyset mirroring: with overwriteWithEmptyValue set, after a
\* successful merge of a map into a map the keys of dst are exactly the
\* keys of src.
C4_KeysetMirrored ==
    (MapCall /\ cfg.overwriteWithEmptyValue /\ err = "") =>
        /\ DstKeys = MapKeys(heap, SrcNow)
        /\ DstKeys = SrcKeysOld

\* a successful merge with overwriteWithEmptyValue has deleted a key of dst
\* and added a key of src
C4_Witness ==
    /\ MapCall
    /\ cfg.overwriteWithEmptyValue
    /\ err = ""
    /\ DstKeysOld \ SrcKeysOld # {}
    /\ SrcKeysOld \ DstKeysOld # {}
    /\ DstKeys = SrcKeysOld


\* the policies without overwriteWithEmptyValue the map rule is stated for
OverwriteOnly == [Default EXCEPT !.overwrite = TRUE]

\* the last call merged a map into a map of the same type under the default
\* policy or with overwrite only
PlainMapCall ==
    /\ MapCall
    /\ DstType = SrcType
    /\ cfg \in {Default, OverwriteOnly}

\* the zero value of type t as a literal
ZeroLit(t) == DeepValue(Heap0, ZeroOf(t), t, MaxDepth)

\* what a zero value of type t holds once literal l has been merged into
\* it: l itself, but empty slices and maps stay nil and the fields the
\* struct case passes over stay zero
RECURSIVE FromZero(_, _)
FromZero(t, l) ==
    CASE l.k = "lslice" ->
            IF l.e = <<>> THEN LNil
            ELSE LSlice([i \in 1..Len(l.e) |-> FromZero(ElemOf(t), l.e[i])], <<>>)
      [] l.k = "lmap" ->
            IF DOMAIN l.m = {} THEN LNil
            ELSE LMap([x \in DOMAIN l.m |-> FromZero(ElemOf(t), l.m[x])])
      [] l.k = "ref" -> LRef(FromZero(ElemOf(t), l.v))
      [] l.k = "lif" -> LIface(l.t, FromZero(l.t, l.v))
      [] l.k = "agg" /\ Kind(t) = "array" ->
            Agg([i \in 1..Len(l.e) |-> FromZero(ElemOf(t), l.e[i])])
      [] l.k = "agg" /\ Kind(t) = "struct"
                     /\ (\E i \in 1..Len(t.fields) : MergeVisits(t, i)) ->
            Agg([i \in 1..Len(l.e) |->
                    IF MergeVisits(t, i) THEN FromZero(t.fields[i].typ, l.e[i])
                    ELSE ZeroLit(t.fields[i].typ)])
      [] OTHER -> l

\* the keyset and frame part of the map rule
KeysetUnion ==
    /\ DstKeys = DstKeysOld \cup SrcKeysOld
    /\ \A key \in DstKeysOld \ SrcKeysOld :
            /\ key \in DstKeys
            /\ Entry(heap, DstNow, DstType, key)
                    = Entry(heap0, DstOld, DstType, key)
    /\ SrcKeysOld = {} => DstDeep = DstDeepOld

CycleSrc(objs, v, t) == [objs |-> objs, v |-> v, t |-> t]

CycleSrcs ==
    { CycleSrc(<<ArrObj(<<Slice(2, 1)>>)>>, Slice(2, 1), Ty("CycleSlice")),
      CycleSrc(<<ArrObj(<<Slice(2, 2), Slice(2, 1)>>)>>, Slice(2, 2),
               Ty("CycleSlice")),
      CycleSrc(<<ArrObj(<<Ptr(2)>>)>>, Ptr(2), Ty("CyclePtr")),
      CycleSrc(<<ArrObj(<<Ptr(3)>>), ArrObj(<<Ptr(2)>>)>>, Ptr(2),
               Ty("CyclePtr")),
      CycleSrc(<<MapObj([x \in {"a"} |-> MapV(2)])>>, MapV(2), Ty("CycleMap")),
      CycleSrc(<<ArrObj(<<Num(1)>>), ArrObj(<<Ptr(2), Ptr(2)>>)>>, Slice(3, 2),
               Ty("[]*int")) }

\* the values dst may point to, given src: nil, src's value itself, and a
\* value of its own
CycleDsts(c) ==
    {ZeroOf(c.t), c.v}
    \cup (CASE Kind(c.t) = "slice" -> {Slice(Len(c.objs) + 2, 1)}
            [] Kind(c.t) = "ptr"   -> {Ptr(Len(c.objs) + 2)}
            [] Kind(c.t) = "map"   -> {MapV(Len(c.objs) + 2)})

\* the object a dst value of its own lives in
OwnObj(t) ==
    IF Kind(t) = "map" THEN MapObj([x \in {"a"} |-> ZeroOf(ElemOf(t))])
    ELSE ArrObj(<<ZeroOf(ElemOf(t))>>)

\* the state before the first call on handcrafted memory h
InitHeapWith(h, dx, sx, c, os) ==
    /\ heap = h
    /\ dstArg = dx
    /\ srcArg = sx
    /\ srcPtr = FALSE
    /\ backArg = Invalid
    /\ cfg = c
    /\ order = <<>>
    /\ arch = "amd64"
    /\ calls = 0
    /\ op = ""
    /\ err = ""
    /\ heap0 = h
    /\ heapI = h
    /\ err0 = ""
    /\ registered = <<>>
    /\ cycles = 0
    /\ invoked = <<>>
    /\ opts = os

InitHeap(h, dx, sx, c) == InitHeapWith(h, dx, sx, c, <<>>)

InitCycles ==
    \/ \E cs \in CycleSrcs, c \in Flags :
         \E dv \in CycleDsts(cs) :
            LET h == Heap0 \o cs.objs \o <<OwnObj(cs.t)>>
                d == Arg(h, dv, cs.t, TRUE)
            IN  InitHeap(d.h, d.x, Imm(cs.v, cs.t, FALSE), c)
    \/ \E f \in {Ty("func"), Ty("chan")}, dv \in {Ptr(0), Ptr(2)}, c \in Flags :
            LET h == Heap0 \o <<ArrObj(<<Ptr(2)>>)>>
                d == Arg(h, dv, Ty("CyclePtr"), TRUE)
            IN  InitHeap(d.h, d.x, Imm(Num(1), f, FALSE), c)

NextCycles == Merge \/ Map

SpecCycles == InitCycles /\ [][NextCycles]_vars

\* no visit key was registered twice
RegisteredOnce ==
    \A i, j \in DOMAIN registered : i # j => registered[i] # registered[j]

\* the references of src the last call came across: the visit keys of the
\* non-nil pointers, maps and slices below it
SrcRefs ==
    {<<<<a, <<1>>>>, t>> : a \in 2..Len(heap0), t \in {SrcType, ElemOf(SrcType)}}

\* C6 (as stated): cycle termination: for every finite source, also a
\* self-referential one, Merge and Map terminate; every (identity, type)
\* pair of src is recursed into at most once per call, and a further
\* encounter is answered with a shallow copy instead of a recursion.
C6_CyclesTerminate ==
    calls >= 1 =>
        /\ err # StackOverflow
        /\ RegisteredOnce
        /\ Len(registered) <= Cardinality(SrcRefs)


(***************************************************************************)
(* SpecRound: a struct value projected into a map[string]any by Map and    *)
(* the map mapped back into a zero struct of the same type, under the      *)
(* default policy.  The map starts empty, or holding a key spelled as an   *)
(* exported field is.                                                      *)
(***************************************************************************)
RoundTypes == {Ty(n) : n \in {"T", "T2", "TP", "TU", "TC"}}

RoundMaps == {LMap(EmptyMap), LMap([x \in {"A"} |-> LIface(Ty("int"), Num(0))])}

RoundCases ==
    UNION {{Case2(Ty("map[string]any"), t, dl, sl, TRUE, FALSE) :
                dl \in RoundMaps, sl \in Lits(t, SmallBudget)} :
           t \in RoundTypes}

InitRound == \E cs \in RoundCases : InitArgs(cs, Default, <<>>, "amd64", TRUE)

NextRound == MapWay

SpecRound == InitRound /\ [][NextRound]_vars

\* the struct the way back filled
BackNow == Load(heap, Root(heap, backArg))

\* field i of the struct S the round trip began with, and of the struct it
\* ended with, as literals
FieldOfS(i)    == DeepValue(heapI, srcArg.v.e[i], SrcType.fields[i].typ, MaxDepth)
FieldOfBack(i) == DeepValue(heap, BackNow.e[i], SrcType.fields[i].typ, MaxDepth)

\* the exported fields of S
ExportedFields == {i \in 1..Len(SrcType.fields) : SrcType.fields[i].exported}

\* the way there has run, from an empty map
Projected ==
    /\ calls = 1
    /\ op = "Map"
    /\ Kind(SrcType) = "struct"
    /\ Kind(DstType) = "map"

\* the way back has run after it
RoundTrip ==
    /\ op = "MapBack"
    /\ MapKeys(heapI, DstInit) = {}

\* the key a field is stored under
KeyOf(f) == IF f.name \in DstKeysOld THEN f.name ELSE ToLower(f.name)

\* C7 (as stated): cross-kind round trip: Map of a struct S into an empty
\* map and of that map back into a zero struct of S's type succeeds and
\* yields a struct whose exported fields equal those of S, with the
\* unexported fields zero; every exported field is stored under its
\* lower-cased name unless the map has a key with the exact field name.
C7_RoundTripAnyStruct ==
    /\ Projected =>
            /\ err = ""
            /\ DstKeys = DstKeysOld
                            \cup {KeyOf(SrcType.fields[i]) : i \in ExportedFields}
    /\ RoundTrip =>
            /\ err = ""
            /\ \A i \in 1..Len(SrcType.fields) :
                    FieldOfBack(i) = IF i \in ExportedFields THEN FieldOfS(i)
                                     ELSE ZeroLit(SrcType.fields[i].typ)


(***************************************************************************)
(* SpecNum: Map of a number into a zero number of another kind or width,   *)
(* under the default policy, on either machine.  The inputs sit at the     *)
(* edges of the widths: the largest and smallest values of each integer    *)
(* type, the first integer a float64 cannot hold, the powers of two just   *)
(* outside int64 and uint64, and floats with a fractional part.            *)
(***************************************************************************)
NumTypes ==
    {Ty(n) : n \in {"int", "int8", "int32", "uint", "uint8",
                    "float64", "float32", "complex128"}}

Edges ==
    {0, 1, 2, 2^(Bits8 - 1) - 1, 2^(Bits8 - 1), 2^Bits8 - 1, 2^Bits8,
     2^Mant64 + 1, MaxInt64, MaxInt64 + 1, MaxUint64, MaxUint64 + 1}

\* 2.5, 1.25 and -2.5 in float units
Fractions == {2 * Frac + 2, Frac + 1, -(2 * Frac + 2)}

\* the values of type t among the edges
NumLits(t) ==
    CASE Kind(t) = "int"  ->
            {Num(n) : n \in {m \in Edges \cup {-e : e \in Edges} :
                                ~OverflowInt(t, m)}}
      [] Kind(t) = "uint" ->
            {Num(n) : n \in {m \in Edges : ~OverflowUint(t, m)}}
      [] Kind(t) = "float" ->
            {Num(q) : q \in {r \in {e * Frac : e \in Edges}
                                   \cup {-(e * Frac) : e \in Edges}
                                   \cup Fractions :
                                RoundMant(r, t.bits) = r}}
      [] Kind(t) = "complex" ->
            {Cplx(e * Frac, im) : e \in {0, 1, 2}, im \in {0, Frac}}

NumCases ==
    UNION {{Case2(dt, st, ZeroOf(dt), sl, TRUE, FALSE) : sl \in NumLits(st)} :
           <<dt, st>> \in {p \in NumTypes \X NumTypes : p[1] # p[2]}}

InitNum ==
    \E cs \in NumCases, ar \in Archs : InitArgs(cs, Default, <<>>, ar, FALSE)

NextNum == Map

SpecNum == InitNum /\ [][NextNum]_vars

\* the number v of type t holds, in float units (its real part)
Quantity(t, v) ==
    CASE Kind(t) \in {"int", "uint"} -> v.n * Frac
      [] Kind(t) = "float" -> v.n
      [] OTHER -> v.re

\* the imaginary part of v
Imaginary(t, v) == IF Kind(t) = "complex" THEN v.im ELSE 0

\* the first call mapped a number into a zero number of another type
NumCall ==
    /\ calls = 1
    /\ op = "Map"
    /\ DstType \in NumTypes
    /\ SrcType \in NumTypes
    /\ DstType # SrcType

\* C8 (as stated): exact numeric coercion: Map of a number into a number
\* of another kind or width either stores a value numerically equal to src
\* or returns an error and leaves dst unchanged; the float 2.0 into an int
\* succeeds; nothing is silently truncated, wrapped or rounded.
C8_ExactCoercion ==
    NumCall =>
        /\ err = "" =>
                /\ Quantity(DstType, DstNow) = Quantity(SrcType, SrcOld)
                /\ Imaginary(DstType, DstNow) = Imaginary(SrcType, SrcOld)
        /\ err # "" => DstNow = DstOld
        /\ (Kind(SrcType) = "float" /\ SrcOld = Num(2 * Frac)
                /\ Kind(DstType) = "int") => err = ""

\* the number v of type st is exactly representable in the type dt: no
\* imaginary part unless dt is complex, a whole number within range for an
\* integer dt, and no more mantissa bits than a float or complex dt has
Representable(dt, st, v) ==
    LET q  == Quantity(st, v)
        im == Imaginary(st, v)
    IN  CASE Kind(dt) = "int" ->
                im = 0 /\ q % Frac = 0 /\ ~OverflowInt(dt, q \div Frac)
          [] Kind(dt) = "uint" ->
                im = 0 /\ q % Frac = 0 /\ ~OverflowUint(dt, q \div Frac)
          [] Kind(dt) = "float" ->
                im = 0 /\ RoundMant(q, dt.bits) = q /\ ~OverflowFloat(dt, q)
          [] OTHER ->
                /\ RoundMant(q, dt.bits) = q
                /\ RoundMant(im, dt.bits) = im
                /\ ~OverflowComplex(dt, q, im)

\* C26 (as stated): numeric kind matrix in Map: a numeric dst of every kind
\* (signed, unsigned, float, complex) accepts a src of every other numeric
\* kind whenever src's value is exactly representable in dst; a complex src
\* with zero imaginary part is accepted by a float dst as by an int dst.
C26_NumericMatrix ==
    (NumCall /\ Representable(DstType, SrcType, SrcOld)) =>
        /\ err = ""
        /\ Quantity(DstType, DstNow) = Quantity(SrcType, SrcOld)


(***************************************************************************)
(* SpecSlices: Merge and Map of a slice into a slice of the same type      *)
(* under every policy of the slice options.  dst is passed by pointer or   *)
(* by value, and may have spare capacity behind its length.                *)
(***************************************************************************)
SliceBudget == Budget(MaxVal - 1, MaxLen, Keys, {Ty("int")})

SliceCases ==
    {Case(Ty("[]int"), dl, sl, byPtr, FALSE) :
        dl \in Lits(Ty("[]int"), SliceBudget),
        sl \in Lits(Ty("[]int"), SliceBudget),
        byPtr \in BOOLEAN}
    \cup {Case(Ty("[]int"), LSlice(e, hid), sl, TRUE, FALSE) :
        e \in UNION {[1..n -> {Num(0), Num(1)}] : n \in 0..1},
        hid \in {<<Num(2)>>, <<Num(0), Num(2)>>},
        sl \in Lits(Ty("[]int"), SliceBudget)}
    \cup {Case(Ty("[]*int"), dl, sl, TRUE, FALSE) :
        dl \in Lits(Ty("[]*int"), SmallBudget),
        sl \in Lits(Ty("[]*int"), SmallBudget)}

SliceFlags == {c \in Flags : ~c.shouldNotDereference /\ ~c.typeCheck}

InitSlices == \E cs \in SliceCases, c \in SliceFlags : InitCase(cs, c, <<>>)

NextSlices == Merge \/ Map

SpecSlices == InitSlices /\ [][NextSlices]_vars

\* the last call merged a slice into a slice of the same type
SliceCall ==
    /\ calls >= 1
    /\ Kind(DstType) = "slice"
    /\ SrcType = DstType

\* the elements a slice literal holds
ElemsOf(l) == IF l = LNil THEN <<>> ELSE l.e

\* dst is the old dst followed by src; an empty src left dst as it was
Concatenated ==
    /\ ElemsOf(DstDeep) = ElemsOf(DstDeepOld) \o ElemsOf(SrcDeepOld)
    /\ ElemsOf(SrcDeepOld) = <<>> => DstDeep = DstDeepOld

\* C9 (as stated): slice append: with appendSlice set, with or without
\* overwrite, merging slice src into slice dst yields the old elements of
\* dst followed by the elements of src, and an empty or nil src leaves dst
\* unchanged, nil-ness included.
C9_AppendAlways == (SliceCall /\ cfg.appendSlice) => Concatenated

\* C9 (amended): the same for a dst passed by pointer under a policy that
\* does not set overwriteEmptySlice.
C9_Append ==
    (/\ SliceCall
     /\ cfg.appendSlice
     /\ ~cfg.overwriteEmptySlice
     /\ dstArg.t = PtrTo(DstType)) =>
        /\ err = ""
        /\ Concatenated

\* a non-empty src was appended to a non-empty dst
C9_Witness ==
    /\ SliceCall
    /\ cfg.appendSlice
    /\ ~cfg.overwriteEmptySlice
    /\ dstArg.t = PtrTo(DstType)
    /\ ElemsOf(DstDeepOld) # <<>>
    /\ ElemsOf(SrcDeepOld) # <<>>
    /\ Len(ElemsOf(DstDeep)) = Len(ElemsOf(DstDeepOld)) + Len(ElemsOf(SrcDeepOld))

\* the larger and the smaller of two numbers
Max(a, b) == IF a > b THEN a ELSE b
Min(a, b) == IF a < b THEN a ELSE b

\* C10: positional slice merge: with appendSlice not set, after success
\* the length of dst is the larger of the old lengths of dst and src;
\* every index below both old lengths is merged under the write rule;
\* under the default policy every index at or beyond the length of src is
\* unchanged; and every index from the old length of dst up to the length
\* of src holds a value equal to the element of src.
C10_Positional ==
    (SliceCall /\ ~cfg.appendSlice /\ err = "") =>
        LET o == ElemsOf(DstDeepOld)
            n == ElemsOf(DstDeep)
            sv == ElemsOf(SrcDeepOld)
        IN  /\ Len(n) = Max(Len(o), Len(sv))
            /\ DstType = Ty("[]int") =>
                  \A i \in 1..Min(Len(o), Len(sv)) :
                      n[i] = IF WriteCondition(cfg, [o |-> o[i], s |-> sv[i]])
                             THEN sv[i] ELSE o[i]
            /\ cfg = Default =>
                  \A i \in (Len(sv) + 1)..Len(o) : n[i] = o[i]
            /\ \A i \in (Len(o) + 1)..Len(sv) : n[i] = sv[i]


(***************************************************************************)
(* SpecNames: Map of a map into a struct, under the policies of the write  *)
(* rule.  The maps hold keys that are a field name, its lower-cased form,  *)
(* or neither.                                                             *)
(***************************************************************************)
NameKeys == {"A", "a", "b"}

NameBudget == Budget(MaxVal - 1, MaxLen - 1, NameKeys, {Ty("int"), Ty("string")})
AnyBudget  == [NameBudget EXCEPT !.keys = {"A", "a"}]

NameCases ==
    UNION {{Case2(t, Ty("map[string]int"), dl, sl, TRUE, FALSE) :
                dl \in Lits(t, NameBudget),
                sl \in Lits(Ty("map[string]int"), NameBudget)} :
           t \in {Ty("T"), Ty("TU")}}
    \cup UNION {{Case2(t, Ty("map[string]any"), dl, sl, TRUE, FALSE) :
                dl \in Lits(t, NameBudget),
                sl \in Lits(Ty("map[string]any"), AnyBudget)} :
           t \in {Ty("T"), Ty("TU")}}

InitNames == \E cs \in NameCases, c \in MapFlags : InitCase(cs, c, <<>>)

NextNames == Map

SpecNames == InitNames /\ [][NextNames]_vars

\* the last call mapped a map into a struct
NameCall ==
    /\ calls >= 1
    /\ op = "Map"
    /\ Kind(DstType) = "struct"
    /\ Kind(SrcType) = "map"

\* the lower-cased name of field f, whether src holds a key for f, and
\* the key the lookup settles on
Fallback(f) == IF f.name = "A" THEN "a" ELSE f.name
HasKey(f) == f.name \in SrcKeysOld \/ Fallback(f) \in SrcKeysOld
Picked(f) == IF f.name \in SrcKeysOld THEN f.name ELSE Fallback(f)

\* the value src holds under key, out of its interface if it is in one
Held(key) ==
    LET v == heap0[SrcOld.a].m[key]
    IN  IF v.k = "iface" THEN [t |-> v.t, v |-> v.v]
        ELSE [t |-> ElemOf(SrcType), v |-> v]

\* the fields of dst the lookup finds a key for
Matched ==
    {i \in 1..Len(DstType.fields) :
        DstType.fields[i].exported /\ HasKey(DstType.fields[i])}

\* C11: struct-from-map name matching in Map: for each exported field of
\* the dst struct the source map is looked up by the exact field name and,
\* only if that key is absent, by the name with its first letter
\* lower-cased; when neither key exists the field is left untouched and no
\* error is returned; map keys that match no field are ignored.
C11_NameMatching ==
    NameCall =>
        /\ \A i \in (1..Len(DstType.fields)) \ Matched :
              DstNow.e[i] = DstOld.e[i]
        /\ Matched = {} => err = ""
        /\ (\A i \in Matched :
               Held(Picked(DstType.fields[i])).t = Ty("int")) => err = ""
        /\ err = "" =>
              \A i \in Matched :
                  LET sv == Held(Picked(DstType.fields[i])).v
                  IN  DstNow.e[i] =
                          IF WriteCondition(cfg, [o |-> DstOld.e[i], s |-> sv])
                          THEN sv ELSE DstOld.e[i]

\* src holds both the exact and the lower-cased name with different
\* values, and the field took the value under the exact name
C11_Witness ==
    /\ NameCall
    /\ err = ""
    /\ {"A", "a", "b"} \subseteq SrcKeysOld
    /\ Held("A").v # Held("a").v
    /\ DstOld.e[1] # Held("A").v
    /\ DstNow.e[1] = Held("A").v


(***************************************************************************)
(* SpecEntry: the argument validation of Merge and Map.  Each argument is  *)
(* nil, a value, or a pointer to a variable; the values are structs, ints, *)
(* slices and maps.                                                        *)
(***************************************************************************)
EntryTypes == {Ty("T"), Ty("int"), Ty("[]int"), Ty("map[string]int")}

EntryCases ==
    UNION {{Case2(t, st, dl, sl, dptr, sptr) :
                dl \in Lits(t, SmallBudget), sl \in Lits(st, SmallBudget),
                dptr \in BOOLEAN, sptr \in BOOLEAN} :
           <<t, st>> \in EntryTypes \X EntryTypes}
    \cup {Case2(PtrTo(Ty("int")), Ty("T"), dl, sl, TRUE, FALSE) :
                dl \in Lits(PtrTo(Ty("int")), SmallBudget),
                sl \in Lits(Ty("T"), SmallBudget)}

\* the arguments of cs, with a nil in the place of dst (dn) or src (sn)
InitNil(cs, c, dn, sn) ==
    LET d  == Build(Heap0, cs.dl, cs.t)
        da == Arg(d.h, d.v, cs.t, cs.dptr)
        sv == Build(da.h, cs.sl, cs.st)
        sa == Arg(sv.h, sv.v, cs.st, cs.sptr)
    IN  /\ heap = sa.h
        /\ dstArg = IF dn THEN Invalid ELSE da.x
        /\ srcArg = IF sn THEN Invalid ELSE sa.x
        /\ srcPtr = cs.sptr
        /\ backArg = Invalid
        /\ cfg = c
        /\ order = <<>>
        /\ arch = "amd64"
        /\ calls = 0
        /\ op = ""
        /\ err = ""
        /\ heap0 = sa.h
        /\ heapI = sa.h
        /\ err0 = ""
        /\ registered = <<>>
        /\ cycles = 0
        /\ invoked = <<>>
        /\ opts = <<>>

InitEntry ==
    \E cs \in EntryCases, dn \in BOOLEAN, sn \in BOOLEAN :
        /\ (dn \/ sn) => (cs.dptr /\ cs.t = cs.st)
        /\ InitNil(cs, Default, dn, sn)

NextEntry == Merge \/ Map

SpecEntry == InitEntry /\ [][NextEntry]_vars

\* the two by-value exceptions, read off the arguments before the call
BothSlices ==
    /\ Kind(dstArg.t) = "slice"
    /\ Kind(srcArg.t) = "slice"
    /\ dstArg.v.len >= srcArg.v.len

MapAdmitted ==
    /\ Kind(dstArg.t) = "map"
    /\ \/ dstArg.v.a # 0
       \/ /\ Kind(srcArg.t) = "map"
          /\ MapLen(heap0, dstArg.v) = MapLen(heap0, srcArg.v)

\* the arguments the entry check is to reject
Rejected ==
    \/ ~IsValid(dstArg)
    \/ ~IsValid(srcArg)
    \/ Kind(dstArg.t) # "ptr" /\ ~BothSlices /\ ~MapAdmitted

\* C12: entry argument validation: Merge and Map return an error and leave
\* dst unmodified when either argument is nil, or when dst is not a
\* pointer, unless dst and src are both slices and len(dst) >= len(src), or
\* dst is a non-nil map or a map whose size equals the size of a map src.
\* A struct passed by value and a nil map paired with a non-empty map are
\* rejected.
C12_EntryValidation ==
    (calls >= 1 /\ Rejected) =>
        /\ err \in {"dst or src is nil", "dst must have kind Pointer"}
        /\ heap = heap0

\* a nil map passed by value was paired with a non-empty map and rejected
C12_Witness ==
    /\ calls >= 1
    /\ Kind(dstArg.t) = "map"
    /\ dstArg.v.a = 0
    /\ Kind(srcArg.t) = "map"
    /\ MapLen(heap0, srcArg.v) > 0
    /\ err = "dst must have kind Pointer"
    /\ heap = heap0


(***************************************************************************)
(* SpecTypes: Merge of arguments whose types differ, at the top or in the  *)
(* values two interfaces hold, under every policy.  dst is a pointer to a  *)
(* variable, which may itself be a pointer.                                *)
(***************************************************************************)
TypeBudget == Budget(MaxVal - 1, MaxLen - 1, {"a"}, {Ty("int"), Ty("string")})

\* dst and src of different types, and of the same type for comparison
TopCases ==
    UNION {{Case2(t, Ty("float64"), dl, Num(Frac), TRUE, FALSE) :
                dl \in Lits(t, TypeBudget)} :
           t \in {Ty("int"), PtrTo(Ty("int"))}}
    \cup {Case2(Ty("MyString"), Ty("string"), dl, sl, TRUE, FALSE) :
        dl \in Lits(Ty("MyString"), TypeBudget),
        sl \in Lits(Ty("string"), TypeBudget)}
    \cup {Case2(Ty("T"), Ty("TU"), dl, sl, TRUE, sptr) :
        dl \in Lits(Ty("T"), TypeBudget), sl \in Lits(Ty("TU"), TypeBudget),
        sptr \in BOOLEAN}
    \cup {Case2(PtrTo(Ty("int")), Ty("int"), dl, sl, TRUE, FALSE) :
        dl \in Lits(PtrTo(Ty("int")), TypeBudget),
        sl \in Lits(Ty("int"), TypeBudget)}

\* interfaces, alone and as map entries, holding ints and strings
HeldCases ==
    {Case(Ty("any"), dl, sl, TRUE, TRUE) :
        dl \in Lits(Ty("any"), TypeBudget), sl \in Lits(Ty("any"), TypeBudget)}
    \cup {Case(Ty("map[string]any"), dl, sl, TRUE, FALSE) :
        dl \in Lits(Ty("map[string]any"), TypeBudget),
        sl \in Lits(Ty("map[string]any"), TypeBudget)}

InitTypes ==
    \E cs \in TopCases \cup HeldCases, c \in Flags : InitCase(cs, c, <<>>)

NextTypes == Merge

SpecTypes == InitTypes /\ [][NextTypes]_vars

\* the type of dst after the top-level dereference: through the variable
\* and, when that is a pointer, through it too
FinalDstType == IF Kind(DstType) = "ptr" THEN ElemOf(DstType) ELSE DstType

\* the last call was a Merge of a dst and a src that differ in type
TopMismatch ==
    /\ calls >= 1
    /\ op = "Merge"
    /\ FinalDstType # SrcType

\* the interfaces the last call paired: dst and src themselves, or the
\* entries two maps hold under one key
HeldPairs ==
    IF Kind(DstType) = "iface" THEN {<<DstOld, SrcOld>>}
    ELSE IF Kind(DstType) = "map" /\ ElemOf(DstType) = Ty("any")
    THEN {<<heap0[DstOld.a].m[k], heap0[SrcOld.a].m[k]>> :
             k \in DstKeysOld \cap SrcKeysOld}
    ELSE {}

\* the last call was a Merge of values of one type that pair two
\* interfaces holding values of different types
NestedMismatch ==
    /\ calls >= 1
    /\ op = "Merge"
    /\ FinalDstType = SrcType
    /\ \E pr \in HeldPairs :
          /\ ~IsNilV(pr[1])
          /\ ~IsNilV(pr[2])
          /\ pr[1].t # pr[2].t

\* C13 (as stated): Same-Kind type mismatch: Merge returns a type-mismatch
\* error, without modifying dst, whenever dst and src after the top-level
\* dereference differ in type; the same error is returned when a nested
\* node pair differs in type.
C13_MismatchAlways ==
    /\ TopMismatch => (err = "type mismatch" /\ heap = heap0)
    /\ NestedMismatch => err = "type mismatch"


\* what a failed Merge may have done to dst: nothing, or the allocation
\* of the nil pointer that a pointer dst points to
OnlyAllocated ==
    \/ heap = heap0
    \/ /\ Kind(DstType) = "ptr"
       /\ IsNilV(DstOld)
       /\ DstDeep = LRef(ZeroOf(FinalDstType))

\* the policies under which Merge descends into two interfaces that hold
\* different types
Descends == ~cfg.shouldNotDereference /\ ~(cfg.overwrite /\ ~cfg.appendSlice)

\* C13 (amended): Merge returns a type-mismatch error whenever dst and src
\* after the top-level dereference differ in type, and dst is then
\* unmodified but for the allocation of a nil pointer that dst points to;
\* the same error is returned when two nested interfaces hold values of
\* different types, unless shouldNotDereference is set or overwrite is set
\* without appendSlice.
C13_Mismatch ==
    /\ TopMismatch => (err = "type mismatch" /\ OnlyAllocated)
    /\ (NestedMismatch /\ Descends) => err = "type mismatch"

\* two interfaces holding an int and a string were merged under a policy
\* that descends, and the call returned the error
C13_Witness ==
    /\ NestedMismatch
    /\ Descends
    /\ err = "type mismatch"


\* the pairs of kinds the Cross-Kind rule names
AllowedPairs == {"struct", "map"} \X {"struct", "map"}

\* the errors of the admission check
AdmitErrors ==
    {"dst was expected to be a struct or a map",
     "dst was expected to be a map or a struct"}

\* the last call was a Map whose arguments passed the argument validation
MapEntered ==
    /\ calls >= 1
    /\ op = "Map"
    /\ ~Rejected

\* C14 (as stated): Cross-Kind admission: in Map mode the only (dst, src)
\* kind combinations accepted after top-level dereference are struct from
\* struct, struct from map, map from map and map from struct; every other
\* combination returns an error before any node is visited and before dst
\* is modified.
C14_OnlyStructsAndMaps ==
    (MapEntered /\ <<Kind(FinalDstType), Kind(SrcType)>> \notin AllowedPairs) =>
        /\ err \in AdmitErrors
        /\ heap = heap0

\* C14 (amended): a src that is a struct or a map after the top-level
\* dereference is accepted only with a dst that is a struct or a map, and
\* any other dst returns the admission error before any node is visited,
\* dst being unmodified but for the allocation of a nil pointer that dst
\* points to; a src of any other kind passes the admission check with a
\* dst of any kind.
C14_Admission ==
    MapEntered =>
        /\ (Kind(SrcType) \in {"struct", "map"}
            /\ Kind(FinalDstType) \notin {"struct", "map"}) =>
                (err \in AdmitErrors /\ OnlyAllocated)
        /\ (Kind(SrcType) \notin {"struct", "map"}
            \/ Kind(FinalDstType) \in {"struct", "map"}) =>
                err \notin AdmitErrors

\* a struct was mapped into an int and turned away at the entry
C14_Witness ==
    /\ MapEntered
    /\ Kind(SrcType) = "struct"
    /\ Kind(FinalDstType) = "int"
    /\ err \in AdmitErrors
    /\ heap = heap0


(***************************************************************************)
(* SpecTransform: Merge and Map with one transformer registered, for the   *)
(* type of dst itself or of a node below it.  The transformer does         *)
(* nothing, copies src into dst, or returns an error.                      *)
(***************************************************************************)
Fns == {"noop", "copy", "fail"}

\* the Config of WithTransformer(fn) for type t on top of the flags of c
WithTransformer(c, t, fn) == [c EXCEPT !.transformers = [x \in {t} |-> fn]]

TransformFlags ==
    {c \in MapFlags : ~c.typeCheck}

\* a case and the type the transformer is registered for
TransformCases ==
    {<<Case(Ty("int"), dl, sl, TRUE, FALSE), Ty("int")>> :
        dl \in Lits(Ty("int"), SmallBudget), sl \in Lits(Ty("int"), SmallBudget)}
    \cup {<<Case(Ty("T2"), dl, sl, TRUE, FALSE), t>> :
        dl \in Lits(Ty("T2"), SmallBudget), sl \in Lits(Ty("T2"), SmallBudget),
        t \in {Ty("int"), Ty("T"), PtrTo(Ty("T"))}}
    \cup {<<Case(Ty("map[string]int"), dl, sl, byPtr, FALSE), t>> :
        dl \in Lits(Ty("map[string]int"), SmallBudget),
        sl \in Lits(Ty("map[string]int"), SmallBudget),
        byPtr \in BOOLEAN, t \in {Ty("int"), Ty("map[string]int")}}
    \cup {<<Case2(Ty("T"), Ty("map[string]int"), dl, sl, TRUE, FALSE), Ty("T")>> :
        dl \in Lits(Ty("T"), SmallBudget),
        sl \in Lits(Ty("map[string]int"), SmallBudget)}
    \cup {<<Case(Ty("TE"), dl, sl, TRUE, FALSE), Ty("TN")>> :
        dl \in Lits(Ty("TE"), SmallBudget), sl \in Lits(Ty("TE"), SmallBudget)}

\* src holds one pointer twice; dst holds two pointers of its own
SharedHeap ==
    Heap0 \o <<ArrObj(<<Num(1)>>), ArrObj(<<Ptr(2), Ptr(2)>>),
               ArrObj(<<Ptr(0), Ptr(0)>>)>>

InitTransform ==
    \/ \E tc \in TransformCases, c \in TransformFlags, fn \in Fns :
            InitCase(tc[1], WithTransformer(c, tc[2], fn), <<>>)
    \/ \E c \in TransformFlags, fn \in Fns :
            LET d == Arg(SharedHeap, Slice(4, 2), Ty("[]*int"), TRUE)
            IN  InitHeap(d.h, d.x, Imm(Slice(3, 2), Ty("[]*int"), FALSE),
                         WithTransformer(c, PtrTo(Ty("int")), fn))

NextTransform == Merge \/ Map

SpecTransform == InitTransform /\ [][NextTransform]_vars

\* the type a transformer is registered for, and what it does
TrType == CHOOSE t \in DOMAIN cfg.transformers : TRUE
TrFn   == cfg.transformers[TrType]

\* the nodes of type TrType that dst and src both have: the values before
\* and after the call, found by descending through structs, non-nil
\* pointers, elements and entries present on both sides
RECURSIVE Nodes(_, _, _, _)
Nodes(t, o, n, sv) ==
    IF t = TrType THEN {[o |-> o, n |-> n, s |-> sv]}
    ELSE IF LNil \in {o, n, sv} THEN {}
    ELSE CASE Kind(t) = "struct" ->
                UNION {Nodes(t.fields[i].typ, o.e[i], n.e[i], sv.e[i]) :
                          i \in {j \in 1..Len(t.fields) : MergeVisits(t, j)}}
           [] Kind(t) = "ptr" -> Nodes(ElemOf(t), o.v, n.v, sv.v)
           [] Kind(t) = "slice" ->
                UNION {Nodes(ElemOf(t), o.e[i], n.e[i], sv.e[i]) :
                          i \in 1..Min(Min(Len(o.e), Len(n.e)), Len(sv.e))}
           [] Kind(t) = "map" ->
                UNION {Nodes(ElemOf(t), o.m[k], n.m[k], sv.m[k]) :
                          k \in (DOMAIN o.m \cap DOMAIN n.m) \cap DOMAIN sv.m}
           [] OTHER -> {}

\* the last call visited dst and src, which have nodes of type TrType
TransformCall ==
    /\ calls >= 1
    /\ ~Rejected
    /\ op = "Merge" => FinalDstType = SrcType

TrNodes ==
    IF Kind(DstType) = Kind(SrcType)
    THEN Nodes(DstType, DstDeepOld, DstDeep, SrcDeepOld)
    ELSE IF DstType = TrType
    THEN {[o |-> DstDeepOld, n |-> DstDeep, s |-> SrcDeepOld]}
    ELSE {}

\* C15: transformer exclusivity: when a transformer is registered for a
\* node's dst type, visiting a valid node pair invokes that transformer
\* exactly once with the address of dst and src and runs no built-in rule
\* for the node or its children, so dst changes only as the transformer
\* changes it; an error the transformer returns is returned by the call.
C15_TransformerExclusive ==
    (TransformCall /\ TrNodes # {}) =>
        /\ Len(invoked) >= 1
        /\ \A i, j \in DOMAIN invoked :
              (i # j) => <<invoked[i].a, invoked[i].p>> # <<invoked[j].a, invoked[j].p>>
        /\ \A i \in DOMAIN invoked : invoked[i].t = TrType
        /\ TrFn = "noop" => (err = "" /\ \A x \in TrNodes : x.n = x.o)
        /\ TrFn = "copy" => (err = "" /\ \A x \in TrNodes : x.n = x.s)
        /\ TrFn = "fail" => (err = "transformer error" /\ \A x \in TrNodes : x.n = x.o)


(***************************************************************************)
(* SpecOptions: the flag options applied, one after another, to the zero   *)
(* Config a call starts from.                                              *)
(***************************************************************************)
MaxOptions == 4

WithOverwrite(c) == [c EXCEPT !.overwrite = TRUE]

\* an option that sets the one field it is named after
WithOverwriteWithEmptyValueOnly(c) ==
    [c EXCEPT !.overwriteWithEmptyValue = TRUE]

WithOverwriteWithEmptyValue(c) ==
    [c EXCEPT !.overwrite = TRUE, !.overwriteWithEmptyValue = TRUE]

WithTypeCheck(c) == [c EXCEPT !.typeCheck = TRUE]

WithoutDereference(c) == [c EXCEPT !.shouldNotDereference = TRUE]

WithAppendSlice(c) == [c EXCEPT !.appendSlice = TRUE]

WithOverwriteEmptySlice(c) == [c EXCEPT !.overwriteEmptySlice = TRUE]

OptionNames ==
    {"WithOverwrite", "WithOverwriteWithEmptyValue", "WithTypeCheck",
     "WithoutDereference", "WithAppendSlice", "WithOverwriteEmptySlice"}

\* opt.apply(&c)
apply(opt, c) ==
    CASE opt = "WithOverwrite"               -> WithOverwrite(c)
      [] opt = "WithOverwriteWithEmptyValue" -> WithOverwriteWithEmptyValue(c)
      [] opt = "WithTypeCheck"               -> WithTypeCheck(c)
      [] opt = "WithoutDereference"          -> WithoutDereference(c)
      [] opt = "WithAppendSlice"             -> WithAppendSlice(c)
      [] opt = "WithOverwriteEmptySlice"     -> WithOverwriteEmptySlice(c)

\* the next option of the list is applied; op names it and calls counts
\* the options applied so far
Apply ==
    \E opt \in OptionNames :
        /\ calls < MaxOptions
        /\ cfg' = apply(opt, cfg)
        /\ op' = opt
        /\ calls' = calls + 1
        /\ UNCHANGED <<heap, dstArg, srcArg, srcPtr, backArg, order, arch, err,
                       heap0, heapI, err0, registered, cycles, invoked, opts>>

InitOptions ==
    InitCase(Case(Ty("int"), Num(0), Num(0), TRUE, FALSE), Default, <<>>)

NextOptions == Apply

SpecOptions == InitOptions /\ [][NextOptions]_vars

\* the Config field an option is named after
FieldOf(opt) ==
    CASE opt = "WithOverwrite"               -> "overwrite"
      [] opt = "WithOverwriteWithEmptyValue" -> "overwriteWithEmptyValue"
      [] opt = "WithTypeCheck"               -> "typeCheck"
      [] opt = "WithoutDereference"          -> "shouldNotDereference"
      [] opt = "WithAppendSlice"             -> "appendSlice"
      [] opt = "WithOverwriteEmptySlice"     -> "overwriteEmptySlice"

\* C16 (as stated): each policy flag option toggles exactly one Policy
\* field: applying an option sets its one corresponding boolean to true
\* and leaves every other field of the Config unchanged; all fields are
\* false when no option is applied.
C16_OneFieldEach ==
    /\ [](calls = 0 => cfg = Default)
    /\ [][cfg' = [cfg EXCEPT ![FieldOf(op')] = TRUE]]_vars

\* C16 (amended): the same, except that WithOverwriteWithEmptyValue sets
\* two fields, overwriteWithEmptyValue and overwrite.
C16_OneFieldButOne ==
    /\ [](calls = 0 => cfg = Default)
    /\ [][cfg' = IF op' = "WithOverwriteWithEmptyValue"
                 THEN [cfg EXCEPT !.overwrite = TRUE,
                                  !.overwriteWithEmptyValue = TRUE]
                 ELSE [cfg EXCEPT ![FieldOf(op')] = TRUE]]_vars

\* WithOverwriteWithEmptyValue was applied to the zero Config
C16_Witness ==
    /\ calls = 1
    /\ op = "WithOverwriteWithEmptyValue"
    /\ cfg = [Default EXCEPT !.overwrite = TRUE,
                             !.overwriteWithEmptyValue = TRUE]


(***************************************************************************)
(* SpecAlias: Merge and Map of a map into a map whose values are pointers, *)
(* slices or interfaces holding pointers, under every policy.  dst and src *)
(* start in memory of their own; src may hold one slice under two keys,    *)
(* or an empty slice with spare capacity.                                  *)
(***************************************************************************)
AliasBudget == Budget(MaxVal - 1, MaxLen - 1, {"a"}, {PtrTo(Ty("int")), Ty("int")})
TwoKeyBudget == [AliasBudget EXCEPT !.keys = Keys]

AliasCases ==
    {Case(Ty("map[string]*int"), dl, sl, TRUE, FALSE) :
        dl \in Lits(Ty("map[string]*int"), AliasBudget),
        sl \in Lits(Ty("map[string]*int"), TwoKeyBudget)}
    \cup {Case(Ty("map[string][]int"), dl, sl, byPtr, FALSE) :
        dl \in Lits(Ty("map[string][]int"), AliasBudget),
        sl \in Lits(Ty("map[string][]int"), AliasBudget),
        byPtr \in BOOLEAN}
    \cup {Case(Ty("map[string]any"), dl, sl, TRUE, FALSE) :
        dl \in Lits(Ty("map[string]any"), AliasBudget),
        sl \in Lits(Ty("map[string]any"), AliasBudget)}
    \cup {Case(Ty("map[string][]int"), dl,
               LMap([x \in {"a"} |-> LSlice(<<>>, <<Num(1)>>)]), TRUE, FALSE) :
        dl \in Lits(Ty("map[string][]int"), AliasBudget)}

AliasFlags == {c \in Flags : ~c.typeCheck}

\* src holds the slice at address 2 under both keys; dst is nil
TwiceHeap ==
    Heap0 \o <<ArrObj(<<Num(1)>>),
               MapObj([x \in Keys |-> Slice(2, 1)])>>

InitAlias ==
    \/ \E cs \in AliasCases, c \in AliasFlags : InitCase(cs, c, <<>>)
    \/ \E c \in AliasFlags :
            LET d == Arg(TwiceHeap, MapV(0), Ty("map[string][]int"), TRUE)
            IN  InitHeap(d.h, d.x, Imm(MapV(3), Ty("map[string][]int"), FALSE), c)

NextAlias == Merge \/ Map

SpecAlias == InitAlias /\ [][NextAlias]_vars

\* the objects a value shares when it is copied: the targets of the
\* pointers, the backing arrays of the non-empty slices and the maps that
\* are reachable from it in at most d steps
RECURSIVE Storage(_, _, _)
Storage(h, v, d) ==
    IF d = 0 THEN {}
    ELSE CASE v.k = "ptr" ->
                IF v.a = 0 THEN {}
                ELSE {v.a} \cup Storage(h, h[v.a].e[1], d - 1)
           [] v.k = "slice" ->
                IF v.a = 0 \/ v.a = ZeroBase THEN {}
                ELSE {v.a} \cup UNION {Storage(h, h[v.a].e[i], d - 1) :
                                           i \in 1..Len(h[v.a].e)}
           [] v.k = "map" ->
                IF v.a = 0 THEN {}
                ELSE {v.a} \cup UNION {Storage(h, h[v.a].m[x], d - 1) :
                                           x \in DOMAIN h[v.a].m}
           [] v.k = "iface" -> IF IsNilV(v) THEN {} ELSE Storage(h, v.v, d)
           [] v.k = "agg" -> UNION {Storage(h, v.e[i], d) : i \in 1..Len(v.e)}
           [] OTHER -> {}

\* the storage of the values dst holds, and of src
DstValueStorage ==
    UNION {Storage(heap, heap[DstNow.a].m[x], MaxDepth) : x \in DstKeys}
SrcStorage == Storage(heap, SrcNow, MaxDepth)

\* the last call merged a map into a map that shared nothing with it, and
\* succeeded
AliasCall ==
    /\ MapCall
    /\ err = ""
    /\ UNION {Storage(heap0, heap0[DstOld.a].m[x], MaxDepth) : x \in DstKeysOld}
          \cap Storage(heap0, SrcOld, MaxDepth) = {}

HeldDiffer ==
    \E pr \in HeldPairs :
        /\ ~IsNilV(pr[1])
        /\ ~IsNilV(pr[2])
        /\ pr[1].t # pr[2].t

\* the calls that copy what they write: pointers and interfaces are
\* dereferenced, an empty slice is not taken over, no reference of src was
\* met a second time, and no interface was replaced by a value of another
\* type
Copies ==
    /\ ~cfg.shouldNotDereference
    /\ ~cfg.overwriteEmptySlice
    /\ cycles = 0
    /\ ~(cfg.overwrite /\ ~cfg.appendSlice /\ HeldDiffer)

FieldTypes == {Ty("TU"), Ty("TE"), Ty("TN")}

FieldCases ==
    UNION {{Case(t, dl, sl, TRUE, FALSE) :
                dl \in Lits(t, SmallBudget), sl \in Lits(t, SmallBudget)} :
           t \in FieldTypes}

InitFields == \E cs \in FieldCases, c \in Flags : InitCase(cs, c, <<>>)

NextFields == Merge \/ Map

SpecFields == InitFields /\ [][NextFields]_vars

\* an unexported field that is neither struct-kind nor embedded
Private(f) == ~f.exported /\ Kind(f.typ) # "struct" /\ ~f.anon

\* every private field below a struct of type t holds in n what it held
\* in o
RECURSIVE PrivateKept(_, _, _)
PrivateKept(t, o, n) ==
    \A i \in 1..Len(t.fields) :
        LET f == t.fields[i] IN
        IF Private(f) THEN n.e[i] = o.e[i]
        ELSE Kind(f.typ) = "struct" => PrivateKept(f.typ, o.e[i], n.e[i])

\* every exported scalar field below a struct of type t holds in n what
\* the write rule makes of o and sv
RECURSIVE PublicMerged(_, _, _, _)
PublicMerged(t, o, n, sv) ==
    \A i \in 1..Len(t.fields) :
        LET f == t.fields[i] IN
        IF Kind(f.typ) = "struct"
        THEN PublicMerged(f.typ, o.e[i], n.e[i], sv.e[i])
        ELSE ~Private(f) =>
                n.e[i] = IF WriteCondition(cfg, [o |-> o.e[i], s |-> sv.e[i]])
                         THEN sv.e[i] ELSE o.e[i]

\* C18: unexported fields: under every policy an unexported struct field of
\* dst that is neither struct-kind nor embedded is never read into or
\* modified by a merge; unexported fields that are struct-kind or embedded
\* are traversed like exported ones, and exported fields are merged
\* recursively.
C18_UnexportedFields ==
    (calls >= 1 /\ DstType \in FieldTypes) =>
        /\ err = ""
        /\ PrivateKept(DstType, DstOld, DstNow)
        /\ PublicMerged(DstType, DstOld, DstNow, SrcOld)


(***************************************************************************)
(* SpecDeref: Merge and Map with WithoutDereference over pointers held in  *)
(* struct fields, map entries and slice elements.                          *)
(***************************************************************************)
DerefBudget == Budget(MaxVal - 1, MaxLen - 1, {"a"}, {Ty("int")})

DerefCases ==
    {Case(Ty("TP"), dl, sl, TRUE, sptr) :
        dl \in Lits(Ty("TP"), DerefBudget), sl \in Lits(Ty("TP"), DerefBudget),
        sptr \in BOOLEAN}
    \cup {Case(Ty("map[string]*int"), dl, sl, dptr, FALSE) :
        dl \in Lits(Ty("map[string]*int"), DerefBudget),
        sl \in Lits(Ty("map[string]*int"), DerefBudget),
        dptr \in BOOLEAN}
    \cup {Case(Ty("[]*int"), dl, sl, TRUE, FALSE) :
        dl \in Lits(Ty("[]*int"), DerefBudget),
        sl \in Lits(Ty("[]*int"), DerefBudget)}

DerefFlags == {c \in Flags : c.shouldNotDereference}

\* p := &1; q := &0; src = []*int{p, p} at address 3, dst = []*int{q, q}
\* at address 5
HeldTwiceHeap ==
    Heap0 \o <<ArrObj(<<Num(1)>>), ArrObj(<<Ptr(2), Ptr(2)>>),
               ArrObj(<<Num(0)>>), ArrObj(<<Ptr(4), Ptr(4)>>)>>

InitDeref ==
    \/ \E cs \in DerefCases, c \in DerefFlags : InitCase(cs, c, <<>>)
    \/ \E c \in DerefFlags :
            LET d == Arg(HeldTwiceHeap, Slice(5, 2), Ty("[]*int"), TRUE)
            IN  InitHeap(d.h, d.x, Imm(Slice(3, 2), Ty("[]*int"), FALSE), c)

NextDeref == Merge \/ Map

SpecDeref == InitDeref /\ [][NextDeref]_vars

\* the pointers a value v of a SpecDeref type holds in memory h, by place
Pointers(h, v) ==
    CASE v.k = "agg"   -> [x \in {"P"} |-> v.e[2]]
      [] v.k = "map"   -> IF v.a = 0 THEN <<>> ELSE h[v.a].m
      [] v.k = "slice" -> [i \in 1..v.len |-> h[v.a].e[i]]

\* the pointer nodes of a call: places where dst and src both held a
\* pointer before the call and dst still holds one; with appendSlice the
\* elements of two slices are concatenated, not paired
PointerNodes ==
    IF DstOld.k = "slice" /\ cfg.appendSlice THEN {}
    ELSE DOMAIN Pointers(heap0, DstOld) \cap DOMAIN Pointers(heap0, SrcOld)
            \cap DOMAIN Pointers(heap, DstNow)

\* (dst is nil OR overwrite) AND (src is non-nil OR overwriteWithEmptyValue)
Adopts(c, d, sv) ==
    (d = Ptr(0) \/ c.overwrite) /\ (sv # Ptr(0) \/ c.overwriteWithEmptyValue)

\* every int a pointer of dst or src referred to is what it was
PointeesKept ==
    \A v \in {DstOld, SrcOld} : \A x \in DOMAIN Pointers(heap0, v) :
        LET q == Pointers(heap0, v)[x]
        IN  q # Ptr(0) => heap[q.a] = heap0[q.a]

DerefCall ==
    /\ calls >= 1
    /\ ~Rejected
    /\ cfg.shouldNotDereference
    /\ DstOld.k \in {"agg", "map", "slice"}

\* C19: with shouldNotDereference set a pointer node is an opaque scalar:
\* the dst pointer becomes the src pointer (same address) if and only if
\* (dst is nil or overwrite is set) and (src is non-nil or
\* overwriteWithEmptyValue is set), otherwise it keeps its identity, and in
\* neither case is a pointee modified.
C19_OpaquePointerAlways ==
    DerefCall =>
        /\ err = ""
        /\ PointeesKept
        /\ \A x \in PointerNodes :
              LET d  == Pointers(heap0, DstOld)[x]
                  sv == Pointers(heap0, SrcOld)[x]
              IN  Pointers(heap, DstNow)[x] =
                      IF Adopts(cfg, d, sv) THEN sv ELSE d


\* the src pointer at place x was met at an earlier place of the same call
MetBefore(x) ==
    /\ SrcOld.k = "slice"
    /\ Pointers(heap0, SrcOld)[x] # Ptr(0)
    /\ \E i \in 1..(x - 1) :
            Pointers(heap0, SrcOld)[i] = Pointers(heap0, SrcOld)[x]

\* C19 (amended): as C19 for every pointer node whose src pointer was not
\* met earlier in the same call; a src pointer met again is copied into dst
\* whatever dst holds and whatever the flags are.
C19_OpaquePointer ==
    DerefCall =>
        /\ err = ""
        /\ PointeesKept
        /\ \A x \in PointerNodes :
              LET d  == Pointers(heap0, DstOld)[x]
                  sv == Pointers(heap0, SrcOld)[x]
              IN  Pointers(heap, DstNow)[x] =
                      IF Adopts(cfg, d, sv) \/ MetBefore(x) THEN sv ELSE d

\* a non-nil dst pointer was replaced by another, non-nil src pointer
C19_Witness ==
    /\ DerefCall
    /\ err = ""
    /\ \E x \in PointerNodes :
          LET d  == Pointers(heap0, DstOld)[x]
              sv == Pointers(heap0, SrcOld)[x]
          IN  /\ d # Ptr(0) /\ sv # Ptr(0) /\ sv # d
              /\ ~MetBefore(x)
              /\ Pointers(heap, DstNow)[x] = sv


(***************************************************************************)
(* SpecEmpty: Merge and Map with WithOverwriteWithEmptyValue where src is  *)
(* nil or shorter than a populated dst: pointers in struct fields and map  *)
(* entries, and slices of ints and of pointers.                            *)
(***************************************************************************)
EmptyBudget == Budget(MaxVal - 1, MaxLen, {"a"}, {Ty("int")})

LitLen(l) == IF l.k = "nil" THEN 0 ELSE Len(l.e)

\* dst longer than src
LongerCases(t) ==
    {Case(t, dl, sl, dptr, FALSE) :
        dl \in Lits(t, EmptyBudget),
        sl \in {l \in Lits(t, EmptyBudget) : LitLen(l) < MaxLen},
        dptr \in BOOLEAN}

EmptyCases ==
    {Case(Ty("TP"), dl, sl, TRUE, sptr) :
        dl \in Lits(Ty("TP"), DerefBudget), sl \in Lits(Ty("TP"), DerefBudget),
        sptr \in BOOLEAN}
    \cup {Case(Ty("map[string]*int"), dl, sl, dptr, FALSE) :
        dl \in Lits(Ty("map[string]*int"), DerefBudget),
        sl \in Lits(Ty("map[string]*int"), DerefBudget),
        dptr \in BOOLEAN}
    \cup {cs \in LongerCases(Ty("[]int")) : LitLen(cs.dl) > LitLen(cs.sl)}
    \cup {cs \in LongerCases(Ty("[]*int")) :
            LitLen(cs.dl) > LitLen(cs.sl) /\ cs.dptr}

EmptyFlags == {c \in Flags : c.overwriteWithEmptyValue}

\* arr := []int{1, 1}; dst = arr at address 2, src = arr[:1]
PrefixHeap == Heap0 \o <<ArrObj(<<Num(1), Num(1)>>)>>

\* x := CycleSlice{}; src = CycleSlice{x, x} at address 2;
\* y := CycleSlice{nil} at address 3; dst = CycleSlice{y, y} at address 4
SliceTwiceHeap ==
    Heap0 \o <<ArrObj(<<Slice(1, 0), Slice(1, 0)>>), ArrObj(<<Slice(0, 0)>>),
               ArrObj(<<Slice(3, 1), Slice(3, 1)>>)>>

InitEmpty ==
    \/ \E cs \in EmptyCases, c \in EmptyFlags : InitCase(cs, c, <<>>)
    \/ \E c \in EmptyFlags :
            LET d == Arg(PrefixHeap, Slice(2, 2), Ty("[]int"), TRUE)
            IN  InitHeap(d.h, d.x, Imm(Slice(2, 1), Ty("[]int"), FALSE), c)
    \/ \E c \in EmptyFlags :
            LET d == Arg(SliceTwiceHeap, Slice(4, 2), Ty("CycleSlice"), TRUE)
            IN  InitHeap(d.h, d.x, Imm(Slice(2, 2), Ty("CycleSlice"), FALSE), c)

NextEmpty == Merge \/ Map

SpecEmpty == InitEmpty /\ [][NextEmpty]_vars

EmptyCall ==
    /\ calls >= 1
    /\ ~Rejected
    /\ cfg.overwriteWithEmptyValue

\* the places of dst where a non-nil pointer met a nil pointer of src
NilledNodes ==
    IF DstOld.k = "slice" THEN {}
    ELSE {x \in DOMAIN Pointers(heap0, DstOld) \cap DOMAIN Pointers(heap0, SrcOld) :
            /\ Pointers(heap0, DstOld)[x] # Ptr(0)
            /\ Pointers(heap0, SrcOld)[x] = Ptr(0)}

\* the pointer at place x is the one it was and points to a zero int
PointeeZeroed(x) ==
    /\ x \in DOMAIN Pointers(heap, DstNow)
    /\ Pointers(heap, DstNow)[x] = Pointers(heap0, DstOld)[x]
    /\ heap[Pointers(heap0, DstOld)[x].a].e[1] = Num(0)

\* the slice nodes of a call: dst before and after and src at the top and,
\* for a slice of slices, at every index both have; again tells that the
\* src slice was met at an earlier index
SliceNodes ==
    IF DstOld.k # "slice" \/ SrcOld.k # "slice" THEN {}
    ELSE {[o |-> DstOld, n |-> DstNow, s |-> SrcOld, again |-> FALSE]}
         \cup IF DstType # Ty("CycleSlice") \/ DstNow.len < DstOld.len THEN {}
              ELSE {[o |-> heap0[DstOld.a].e[i], n |-> heap[DstNow.a].e[i],
                     s |-> heap0[SrcOld.a].e[i],
                     again |-> \E j \in 1..(i - 1) :
                                /\ heap0[SrcOld.a].e[j] = heap0[SrcOld.a].e[i]
                                /\ heap0[SrcOld.a].e[i].a # 0] :
                    i \in 1..Min(DstOld.len, SrcOld.len)}

\* dst has the length it had and zero values from len(src) on
TailZeroed(p) ==
    /\ p.n.len = p.o.len
    /\ \A i \in (p.s.len + 1)..p.o.len :
            heap[p.n.a].e[i] = ZeroOf(ElemOf(DstType))

\* C20: in-place emptying under overwriteWithEmptyValue: a non-nil dst
\* pointer merged with a nil src pointer keeps its address and its pointee
\* becomes the zero value (the pointer is not set to nil), and a dst slice
\* longer than src keeps its length with every element at index >= len(src)
\* set to the zero value.
C20_EmptiedInPlaceAlways ==
    EmptyCall =>
        /\ err = ""
        /\ \A x \in NilledNodes : PointeeZeroed(x)
        /\ \A p \in SliceNodes : p.o.len > p.s.len => TailZeroed(p)


\* C20 (amended): as C20, the pointer part when shouldNotDereference is not
\* set and the slice part when appendSlice is not set, src does not start
\* at dst's first element and src is not a slice met earlier in the call.
C20_EmptiedInPlace ==
    EmptyCall =>
        /\ ~cfg.appendSlice => err = ""
        /\ ~cfg.shouldNotDereference => \A x \in NilledNodes : PointeeZeroed(x)
        /\ ~cfg.appendSlice =>
              \A p \in SliceNodes :
                  (p.o.len > p.s.len /\ p.o.a # p.s.a /\ ~p.again)
                      => TailZeroed(p)

\* a pointer kept its address over a pointee zeroed in place, or a slice
\* kept its length over a tail that was not zero before
C20_Witness ==
    /\ EmptyCall
    /\ err = ""
    /\ C20_EmptiedInPlace
    /\ \/ \E x \in NilledNodes :
              /\ PointeeZeroed(x)
              /\ heap0[Pointers(heap0, DstOld)[x].a].e[1] # Num(0)
       \/ \E p \in SliceNodes :
              /\ p.o.len > p.s.len /\ p.s.len > 0 /\ ~cfg.appendSlice
              /\ TailZeroed(p)
              /\ heap0[p.o.a].e[p.o.len] # ZeroOf(ElemOf(DstType))


(***************************************************************************)
(* SpecHeld: Merge and Map with WithOverwrite between two map[string]any   *)
(* whose entries under one key hold ints, strings and slices.              *)
(***************************************************************************)
HeldTypes ==
    {Ty("int"), Ty("string"), Ty("MyString"), Ty("[]int"), Ty("[]int32")}

HeldBudget == Budget(MaxVal - 1, MaxLen - 1, {"a"}, HeldTypes)

\* dst holds a value under "a"; src holds a value or nil
OverwriteCases ==
    {Case(Ty("map[string]any"), LMap([x \in {"a"} |-> dl]),
          LMap([x \in {"a"} |-> sl]), TRUE, FALSE) :
        dl \in Lits(Ty("any"), HeldBudget) \ {LNil},
        sl \in Lits(Ty("any"), HeldBudget)}

OverwriteFlags == {c \in Flags : c.overwrite /\ ~c.overwriteEmptySlice}

InitHeld ==
    \E cs \in OverwriteCases, c \in OverwriteFlags : InitCase(cs, c, <<>>)

NextHeld == Merge \/ Map

SpecHeld == InitHeld /\ [][NextHeld]_vars

\* the interface values dst held before, src held before and dst holds
\* after the last call under "a"
HeldOld == heap0[DstOld.a].m["a"]
HeldSrc == heap0[SrcOld.a].m["a"]
HeldNow == heap[DstNow.a].m["a"]

HeldCall ==
    /\ calls >= 1
    /\ cfg.overwrite

TypesDiffer == ~IsNilV(HeldSrc) /\ HeldOld.t # HeldSrc.t

\* the call returned an error
Panics ==
    {"panic: assignment to entry in nil map", "panic: reflect.AppendSlice",
     "panic: reflect.Value.Addr", "panic: reflect.Value.Call",
     "panic: reflect.Value.Interface", "panic: reflect.Value.IsNil",
     "panic: reflect.Value.Set", "panic: reflect.Value.SetMapIndex",
     "panic: reflect.Value.SetZero", "panic: reflect.Value.Type on zero Value",
     "panic: reflect.Value.UnsafePointer", StackOverflow}

ReturnedError == err # "" /\ err \notin Panics

KindsDiffer == TypesDiffer /\ ~SameKind(HeldOld.t, HeldSrc.t)

AbortBudget == Budget(MaxVal - 1, MaxLen - 1, {"a"}, {Ty("int"), Ty("string")})

\* dst has A = B = 0 and src has A = B = 1: both fields are to be written
AbortPairs ==
    {<<Agg(<<Num(0), di, Num(0)>>), Agg(<<Num(1), si, Num(1)>>)>> :
        di \in Lits(Ty("any"), AbortBudget), si \in Lits(Ty("any"), AbortBudget)}

AbortCases ==
    {Case(Ty("TI"), p[1], p[2], TRUE, FALSE) : p \in AbortPairs}
    \cup {Case(Ty("map[string]TI"), LMap([x \in {"a"} |-> p[1]]),
               LMap([x \in {"a"} |-> p[2]]), TRUE, FALSE) : p \in AbortPairs}
    \cup {Case(Ty("any"), LIface(Ty("TI"), p[1]), LIface(Ty("TI"), p[2]),
               TRUE, TRUE) : p \in AbortPairs}

AbortFlags ==
    {c \in Flags : ~c.shouldNotDereference /\ ~c.overwriteEmptySlice}

InitAbort == \E cs \in AbortCases, c \in AbortFlags : InitCase(cs, c, <<>>)

NextAbort == Merge \/ Map

SpecAbort == InitAbort /\ [][NextAbort]_vars

\* the struct below v: v itself, the entry under "a", or the held value
StructIn(h, v) ==
    CASE v.k = "agg"   -> v
      [] v.k = "map"   -> h[v.a].m["a"]
      [] v.k = "iface" -> v.v

\* the first call failed at the node I: A comes before it, B after it
FailedAtI ==
    /\ calls = 1
    /\ ReturnedError

SourceBudget == Budget(MaxVal - 1, MaxLen - 1, {"a"}, {Ty("int"), Ty("[]int")})

SourceTypes ==
    {Ty("TP"), Ty("[]*int"), Ty("map[string]*int"), Ty("[]int")}

SourceCases ==
    UNION {{Case(t, dl, sl, TRUE, FALSE) :
                dl \in Lits(t, SourceBudget), sl \in Lits(t, SourceBudget)} :
           t \in SourceTypes}
    \cup {Case(Ty("any"), dl, sl, TRUE, TRUE) :
            dl \in {LNil, LIface(Ty("int"), Num(1)),
                    LIface(Ty("[]int"), LSlice(<<Num(1)>>, <<>>))},
            sl \in Lits(Ty("any"), SourceBudget) \ {LNil}}

InitSource ==
    \/ \E cs \in SourceCases, c \in Flags : InitCase(cs, c, <<>>)
    \/ \E c \in Flags :
            LET d == Arg(HeldTwiceHeap, Slice(5, 2), Ty("[]*int"), TRUE)
            IN  InitHeap(d.h, d.x, Imm(Slice(3, 2), Ty("[]*int"), FALSE), c)

NextSource == Merge \/ Map

SpecSource == InitSource /\ [][NextSource]_vars

\* dst and src shared no storage when the last call started
Apart ==
    /\ calls >= 1
    /\ Storage(heap0, DstOld, MaxDepth) \cap Storage(heap0, SrcOld, MaxDepth) = {}

\* src and every object reachable from it are what they were
SourceKept ==
    /\ SrcNow = SrcOld
    /\ \A a \in Storage(heap0, SrcOld, MaxDepth) : heap[a] = heap0[a]

TopRefs ==
    LET Triple(o, n, x) == [o |-> o, n |-> n, s |-> x]
    IN  IF DstOld.k = "agg"
        THEN {Triple(DstOld.e[i], DstNow.e[i], SrcOld.e[i]) :
                i \in {j \in 1..Len(DstOld.e) :
                          DstOld.e[j].k \in {"ptr", "map", "slice"}}}
        ELSE IF DstOld.k \in {"ptr", "map", "slice"}
        THEN {Triple(DstOld, DstNow, SrcOld)}
        ELSE {}

\* the reference v of src gives a nil dst something to hold: a non-nil
\* pointer, a slice or a map that is not empty
Holds(v) ==
    CASE v.k = "ptr"   -> v.a # 0
      [] v.k = "slice" -> v.len > 0
      [] OTHER         -> v.a # 0 /\ heap0[v.a].m # EmptyMap

\* a non-nil reference of dst is the object it was; a nil one whose src
\* holds something is an object that did not exist before the call
OwnIdentity(r) ==
    /\ ~IsNilV(r.o) => r.n.a = r.o.a
    /\ (IsNilV(r.o) /\ Holds(r.s)) => r.n.a > Len(heap0)

\* the last call ran under the default policy on a dst and a src that
\* shared nothing
DefaultCall == Apart /\ cfg = Default

OwnOrGrown(r) ==
    IF r.o.k = "slice" /\ ~IsNilV(r.o) /\ r.o.len < r.s.len
    THEN IF r.s.len <= Len(heap0[r.o.a].e)
         THEN r.n.a = r.o.a
         ELSE r.n.a > Len(heap0)
    ELSE OwnIdentity(r)

MaxOpts == 2

FlagOption(name)       == [name |-> name, t |-> NoElem, fn |-> ""]
TransformerOption(t, fn) == [name |-> "WithTransformer", t |-> t, fn |-> fn]

DuplicateTransformer == "panic: WithTransformer called twice for type"

\* `var c Config`: the Config a call starts to build; prev, the Config the
\* call before built, is out of scope
NewConfigKept(prev) == prev

NewConfig(prev) == Default

\* opt.apply(&c) for the options os[i..]
RECURSIVE applyAll(_, _, _)
applyAll(c, os, i) ==
    IF i > Len(os) THEN [c |-> c, err |-> ""]
    ELSE IF os[i].name # "WithTransformer"
    THEN applyAll(apply(os[i].name, c), os, i + 1)
    ELSE IF os[i].t \in DOMAIN c.transformers
    THEN [c |-> c, err |-> DuplicateTransformer]
    ELSE applyAll([c EXCEPT !.transformers =
                      [x \in DOMAIN @ \cup {os[i].t} |->
                          IF x = os[i].t THEN os[i].fn ELSE @[x]]], os, i + 1)

\* the effect of a call that built Config c and ended in state s
CalledWith(s, name, c) ==
    /\ heap' = s.h
    /\ err' = s.err
    /\ registered' = s.registered
    /\ cycles' = s.cycles
    /\ invoked' = s.invoked
    /\ heap0' = heap
    /\ err0' = err
    /\ calls' = calls + 1
    /\ op' = name
    /\ order' = s.order
    /\ cfg' = c
    /\ UNCHANGED <<dstArg, srcArg, srcPtr, backArg, arch, heapI, opts>>

\* DeepMerge(dst, src, opts...); the options are applied after the entry
\* check, which the arguments of SpecCalls pass
MergeOpts ==
    /\ calls < MaxCalls
    /\ LET r == applyAll(NewConfig(cfg), opts, 1)
       IN  CalledWith(IF r.err # "" THEN Fail(Start(<<>>), r.err)
                      ELSE DeepMerge(dstArg, srcArg, Start(<<>>), r.c),
                      "Merge", r.c)

\* DeepMap(dst, src, opts...)
MapOpts ==
    /\ calls < MaxCalls
    /\ LET r == applyAll(NewConfig(cfg), opts, 1)
       IN  CalledWith(IF r.err # "" THEN Fail(Start(<<>>), r.err)
                      ELSE DeepMap(dstArg, srcArg, Start(<<>>), r.c),
                      "Map", r.c)

CallOptions ==
    {FlagOption("WithOverwrite")}
    \cup {TransformerOption(Ty("int"), fn) : fn \in Fns}
    \cup {TransformerOption(PtrTo(Ty("int")), "noop")}

OptionLists == UNION {[1..n -> CallOptions] : n \in 0..MaxOpts}

CallCases ==
    {Case(Ty("int"), dl, sl, TRUE, FALSE) :
        dl \in Lits(Ty("int"), SmallBudget), sl \in Lits(Ty("int"), SmallBudget)}
    \cup {Case(Ty("TP"), dl, sl, TRUE, FALSE) :
        dl \in Lits(Ty("TP"), SmallBudget), sl \in Lits(Ty("TP"), SmallBudget)}

InitCalls ==
    \/ \E cs \in CallCases, os \in OptionLists :
            InitWith(cs, Default, <<>>, "amd64", FALSE, os)
    \/ \E os \in OptionLists :
            LET d == Arg(HeldTwiceHeap, Slice(5, 2), Ty("[]*int"), TRUE)
            IN  InitHeapWith(d.h, d.x, Imm(Slice(3, 2), Ty("[]*int"), FALSE),
                             Default, os)

NextCalls == MergeOpts \/ MapOpts

SpecCalls == InitCalls /\ [][NextCalls]_vars

\* the list registers two transformers for one type
TwiceInList ==
    \E i, j \in 1..Len(opts) :
        /\ i < j
        /\ opts[i].name = "WithTransformer"
        /\ opts[j].name = "WithTransformer"
        /\ opts[i].t = opts[j].t

\* the flags and the transformer table the list asks for
AskedFor ==
    /\ cfg.overwrite = (\E i \in 1..Len(opts) : opts[i].name = "WithOverwrite")
    /\ ~cfg.typeCheck /\ ~cfg.appendSlice /\ ~cfg.shouldNotDereference
    /\ \A i \in 1..Len(opts) :
            opts[i].name = "WithTransformer" =>
                /\ opts[i].t \in DOMAIN cfg.transformers
                /\ cfg.transformers[opts[i].t] = opts[i].fn
    /\ \A t \in DOMAIN cfg.transformers :
            \E i \in 1..Len(opts) :
                opts[i].name = "WithTransformer" /\ opts[i].t = t

\* C24: no state between calls: each call starts with an empty cycle guard
\* and a freshly built Config and transformer table; passing the same
\* option values (the same WithTransformer option included) to successive
\* calls never causes a duplicate-registration failure, and the outcome of
\* a call depends only on its own dst, src and options, not on earlier
\* calls.
C24_NoStateBetweenCalls ==
    calls >= 1 =>
        /\ err = DuplicateTransformer <=> TwiceInList
        /\ ~TwiceInList => AskedFor
        /\ \A i, j \in 1..Len(registered) : registered[i] = registered[j] => i = j
        /\ (calls >= 2 /\ heap0 = heapI) =>
                /\ err = err0
                /\ heap = heap0

\* a second call with the same WithTransformer option invoked the
\* transformer again
C24_Witness ==
    /\ calls >= 2
    /\ \E i \in 1..Len(opts) : opts[i].name = "WithTransformer"
    /\ invoked # <<>>
    /\ err = ""
    /\ err0 = ""


(***************************************************************************)
(* SpecSame: Merge and Map of a dst and a src that are one object: slices  *)
(* of one backing array, one map, structs holding one pointer.             *)
(***************************************************************************)
\* arr := []int{1, 1} at address 2; m := map[string]int{"a": 1} at
\* address 3; p := &one at address 4
SameHeap ==
    Heap0 \o <<ArrObj(<<Num(1), Num(1)>>), MapObj([x \in {"a"} |-> Num(1)]),
               ArrObj(<<Num(1)>>)>>

\* dst and src: arr[:n] and arr[:m], m and m, struct{A int; P *int}{0, p}
\* twice
SamePairs ==
    {<<Slice(2, n), Slice(2, m), Ty("[]int")>> : n, m \in 0..MaxLen}
    \cup {<<MapV(3), MapV(3), Ty("map[string]int")>>}
    \cup {<<Agg(<<Num(0), Ptr(4)>>), Agg(<<Num(0), Ptr(4)>>), Ty("TP")>>}

InitSame ==
    \E p \in SamePairs, c \in Flags :
        LET d == Arg(SameHeap, p[1], p[3], TRUE)
        IN  InitHeap(d.h, d.x, Imm(p[2], p[3], FALSE), c)

NextSame == Merge \/ Map

SpecSame == InitSame /\ [][NextSame]_vars

\* the last call paired a dst node with the src node that is the same
\* object
SameObject ==
    /\ calls >= 1
    /\ \/ DstOld.k \in {"slice", "map"} /\ DstOld.a = SrcOld.a /\ DstOld.a # 0
       \/ DstOld.k = "agg" /\ DstOld.e[2] = SrcOld.e[2]

\* C25: identity short-circuit: when a dst node and its src node are the
\* same object (pointers to the same target, slices with the same backing
\* storage, or the same map), the visit leaves dst and everything reachable
\* from it unchanged, under every policy combination including appendSlice
\* and overwriteWithEmptyValue.
C25_IdentityShortCircuit ==
    SameObject =>
        /\ err = ""
        /\ DstNow = DstOld
        /\ \A a \in Storage(heap0, DstOld, MaxDepth) : heap[a] = heap0[a]


(***************************************************************************)
(* SpecKinds: Merge and Map between two interface values, each passed by   *)
(* pointer, that hold ints, strings and slices, under every policy.        *)
(***************************************************************************)
KindTypes == {Ty("int"), Ty("string"), Ty("MyString"), Ty("[]int")}

KindBudget == Budget(MaxVal - 1, MaxLen - 1, {"a"}, KindTypes)

KindCases ==
    {Case(Ty("any"), dl, sl, TRUE, TRUE) :
        dl \in Lits(Ty("any"), KindBudget),
        sl \in Lits(Ty("any"), KindBudget)}

InitKinds == \E cs \in KindCases, c \in Flags : InitCase(cs, c, <<>>)

NextKinds == Merge \/ Map

SpecKinds == InitKinds /\ [][NextKinds]_vars

\* the last call met two non-nil interface values holding different kinds
KindsApart ==
    /\ calls >= 1
    /\ ~IsNilV(DstOld)
    /\ ~IsNilV(SrcOld)
    /\ ~SameKind(DstOld.t, SrcOld.t)

Replacing == cfg.overwrite /\ ~cfg.appendSlice

ByValueCall ==
    /\ calls >= 1
    /\ Kind(dstArg.t) \in {"slice", "map"}
    /\ ~Rejected

\* C29 (as stated): by-value destinations are only written through their
\* elements: for a dst passed by value and accepted by the entry check,
\* under every policy, appendSlice and overwriteEmptySlice included, the
\* engine never attempts to replace the top-level destination value, which
\* is not settable; it writes only slice elements and map entries.
C29_ByValueElements ==
    ByValueCall =>
        /\ err # "panic: reflect.Value.Set"
        /\ DstNow = DstOld


(***************************************************************************)
(* SpecNil: Map into a struct from a map whose values may be nil: a        *)
(* map[string]any holding nil interfaces, a map[string]*int holding a nil  *)
(* pointer and a map[string][]int holding a nil slice.                     *)
(***************************************************************************)
NilBudget == Budget(MaxVal - 1, MaxLen - 1, {"A", "P"}, {Ty("int")})

NilCases ==
    {Case2(Ty("TP"), Ty("map[string]any"), dl, sl, TRUE, FALSE) :
        dl \in Lits(Ty("TP"), NilBudget),
        sl \in Lits(Ty("map[string]any"), NilBudget) \ {LNil}}
    \cup {Case2(Ty("TP"), Ty("map[string]*int"), dl, sl, TRUE, FALSE) :
        dl \in Lits(Ty("TP"), NilBudget),
        sl \in Lits(Ty("map[string]*int"), [NilBudget EXCEPT !.keys = {"P"}])
                  \ {LNil}}
    \cup {Case2(Ty("TC"), Ty("map[string][]int"), Agg(<<LNil, LNil, LNil>>),
                sl, TRUE, FALSE) :
        sl \in Lits(Ty("map[string][]int"), [NilBudget EXCEPT !.keys = {"S"}])
                  \ {LNil}}

InitNilValues == \E cs \in NilCases, c \in Flags : InitCase(cs, c, <<>>)

NextNil == Map

SpecNil == InitNilValues /\ [][NextNil]_vars

\* the value src held for field f before the last call
HeldFor(f) == heap0[SrcOld.a].m[Picked(f)]

\* the exported fields of dst whose key in src held a nil value, and the
\* first of them
NilFields ==
    {i \in 1..Len(DstType.fields) :
        /\ DstType.fields[i].exported
        /\ HasKey(DstType.fields[i])
        /\ IsNilV(HeldFor(DstType.fields[i]))}

FirstNil == CHOOSE i \in NilFields : \A j \in NilFields : i <= j

Validity == "v1.IsValid() != v2.IsValid()"

\* field i, a nil pointer before the call, points to a new zero target
FreshZero(i) ==
    (DstOld.e[i].k = "ptr" /\ DstOld.e[i].a = 0) =>
        /\ DstNow.e[i].a > Len(heap0)
        /\ heap[DstNow.e[i].a].e[1] = ZeroOf(ElemOf(DstType.fields[i].typ))

\* C30 (as stated): nil map value against a struct field in Map: when a key
\* of the source map matches an exported dst field but holds a nil value,
\* the field is not skipped like a missing key: the call fails with the
\* validity error, and a matched field that is a nil pointer has already
\* been set to a freshly allocated zero target before the failure.
C30_NilValueAnyMap ==
    (NameCall /\ NilFields # {}) =>
        /\ err = Validity
        /\ FreshZero(FirstNil)

\* the last call mapped a map whose values are interfaces into a struct
AnyMapCall == NameCall /\ Kind(ElemOf(SrcType)) = "iface"

\* C30 (amended): the same for a source map whose value type is an
\* interface type and a key that holds the nil interface.
C30_NilValue ==
    (AnyMapCall /\ NilFields # {}) =>
        /\ err = Validity
        /\ FreshZero(FirstNil)

\* "P" held nil for the nil pointer field P: the call failed and P points
\* to a new zero int
C30_Witness ==
    /\ AnyMapCall
    /\ calls = 1
    /\ NilFields = {2}
    /\ DstOld.e[2] = Ptr(0)
    /\ DstNow.e[2].a > Len(heap0)
    /\ heap[DstNow.e[2].a].e[1] = Num(0)
    /\ err = Validity

====
